---- MODULE Spec2Model ----
(***************************************************************************)
(* Model of the multi-key LLM call gateway (src/core/api_pool.py) and of   *)
(* the dependency-ordered task graph (src/tasks/task.py,                   *)
(* src/tasks/scheduler.py, src/orchestrator.py), of the file operations    *)
(* under a base directory (src/tools/fileio.py), and of the rate limiter   *)
(* of LLMClient.chat (src/core/llm_client.py).                             *)
(*                                                                         *)
(* Python values are represented as follows.                               *)
(*   str            a sequence of one-character strings                    *)
(*   None           the record None                                        *)
(*   Optional[T]    None, or the value in a record: [int |-> n],           *)
(*                  [float |-> tenths], [str |-> text], [list |-> items],  *)
(*                  [path |-> path]                                        *)
(*   Path           the list of components, each a str                     *)
(*   APIKeyInfo     a record; a reference to one is its position in the    *)
(*                  list pool.keys (records are never removed)             *)
(*   dict           a record                                               *)
(*   time.time()    the variable now, advanced by the action Tick (and by  *)
(*                  Chat, in seconds)                                      *)
(***************************************************************************)
EXTENDS Integers, Sequences, FiniteSets, TLC

VARIABLES
    pools,      \* pools[p]: the APIKeyPool named p (keys, round_robin_index)
    now,        \* the wall clock read by time.time()
    ret,        \* what the last direct pool operation returned
    calls,      \* calls[c]: one invocation of call_parallel and its attempts
    graph,      \* TaskGraph.graph: nodes in insertion order, payloads, edges
    run,        \* the run loop of src/orchestrator.py over one TaskScheduler
                \* (or the one manager, scheduler or client a specification drives)
    fs          \* the file system seen by src/tools/fileio.py

vars == <<pools, now, ret, calls, graph, run, fs>>

-----------------------------------------------------------------------------
(* Bounds of the model *)

MaxKeys == 2        \* keys added to one pool
MaxUsed == 3        \* cap on calls_count
MaxErrors == 4      \* cap on errors
MaxTime == 1        \* cap on the clock
MaxIndex == 3       \* cap on round_robin_index
MaxCount == 4       \* largest count given to get_keys_for_parallel directly
MaxFanOut == 3      \* largest n_parallel of call_parallel
MaxCalls == 2       \* invocations of call_parallel in one run

-----------------------------------------------------------------------------
(* Python helpers *)

None == [none |-> TRUE]

Whitespace == {" "}

RECURSIVE lstrip(_)
lstrip(s) == IF s # <<>> /\ Head(s) \in Whitespace THEN lstrip(Tail(s)) ELSE s

RECURSIVE rstrip(_)
rstrip(s) ==
    IF s # <<>> /\ s[Len(s)] \in Whitespace THEN rstrip(SubSeq(s, 1, Len(s) - 1)) ELSE s

\* str.strip()
strip(s) == rstrip(lstrip(s))

\* str.startswith(prefix)
startswith(s, prefix) ==
    Len(prefix) <= Len(s) /\ SubSeq(s, 1, Len(prefix)) = prefix

-----------------------------------------------------------------------------
(* APIKeyInfo *)

ErrorLimit == 3

\* APIKeyInfo(key=..., provider=...) with the dataclass defaults
APIKeyInfo(key, provider) ==
    [key |-> key, provider |-> provider, calls_count |-> 0, last_used |-> 0,
     errors |-> 0, is_active |-> TRUE]

\* mutant: a success starts the count of errors anew
mark_used_forgives(k, t) ==
    [k EXCEPT !.calls_count = @ + 1, !.last_used = t, !.errors = 0]

\* mutant: a success heals the record
mark_used_heals(k, t) ==
    [k EXCEPT !.calls_count = @ + 1, !.last_used = t, !.errors = 0, !.is_active = TRUE]

mark_used(k, t) == [k EXCEPT !.calls_count = @ + 1, !.last_used = t]

mark_error(k) ==
    LET e == k.errors + 1
    IN  [k EXCEPT !.errors = e, !.is_active = IF e >= ErrorLimit THEN FALSE ELSE @]

-----------------------------------------------------------------------------
(* APIKeyPool *)

Providers == {"openai", "qwen"}

APIKeyPool == [keys |-> <<>>, round_robin_index |-> 0]

\* [k for k in keys if k.is_active] from position i on, as references
RECURSIVE active_from(_, _)
active_from(keys, i) ==
    IF i > Len(keys) THEN <<>>
    ELSE (IF keys[i].is_active THEN <<i>> ELSE <<>>) \o active_from(keys, i + 1)

\* mutant: the filter on is_active is missing
all_keys(pool) == [i \in 1..Len(pool.keys) |-> i]

\* active_keys = [k for k in self.keys if k.is_active], as references
active_keys(pool) == active_from(pool.keys, 1)

\* add_key: the pool after the call
add_key(pool, key, provider) ==
    IF key # <<>> /\ strip(key) # <<>> /\ ~startswith(key, <<"#">>)
    THEN [pool EXCEPT !.keys = Append(@, APIKeyInfo(strip(key), provider))]
    ELSE pool

\* mutant: the cursor is not advanced
get_next_key_stuck(pool) ==
    LET active == active_keys(pool)
    IN  IF active = <<>>
        THEN [value |-> None, pool |-> pool]
        ELSE [value |-> [key |-> active[(pool.round_robin_index % Len(active)) + 1]],
              pool |-> pool]

\* get_next_key: the returned reference (or None) and the pool after the call
get_next_key(pool) ==
    LET active == active_keys(pool)
    IN  IF active = <<>>
        THEN [value |-> None, pool |-> pool]
        ELSE [value |-> [key |-> active[(pool.round_robin_index % Len(active)) + 1]],
              pool |-> [pool EXCEPT !.round_robin_index = @ + 1]]

\* the sort key of get_least_used_key: (calls_count, last_used), compared as tuples
LessUsed(a, b) ==
    \/ a.calls_count < b.calls_count
    \/ a.calls_count = b.calls_count /\ a.last_used < b.last_used

\* min(active_keys, key=...): the first of the minimal elements
get_least_used_key(pool) ==
    LET active == active_keys(pool)
        IsMin(j) == \A l \in 1..Len(active) :
                        ~LessUsed(pool.keys[active[l]], pool.keys[active[j]])
        first == CHOOSE j \in 1..Len(active) :
                        IsMin(j) /\ \A l \in 1..(j - 1) : ~IsMin(l)
    IN  IF active = <<>> THEN None ELSE [key |-> active[first]]

\* mutant: no cycling, at most one reference per active record
get_keys_for_parallel_no_cycle(pool, count) ==
    LET active == active_keys(pool)
    IN  SubSeq(active, 1, IF count < Len(active) THEN count ELSE Len(active))

\* get_keys_for_parallel: the list of references
get_keys_for_parallel(pool, count) ==
    LET active == active_keys(pool)
    IN  IF active = <<>>
        THEN <<>>
        ELSE [i \in 1..(IF count > 0 THEN count ELSE 0) |->
                    active[((i - 1) % Len(active)) + 1]]

-----------------------------------------------------------------------------
(* Direct operations on one pool: an APIKeyPool driven through its methods *)

NoReturn == [op |-> "none"]

AddKey(p, key) ==
    /\ Len(pools[p].keys) < MaxKeys
    /\ pools' = [pools EXCEPT ![p] = add_key(@, key, p)]
    /\ ret' = [op |-> "add_key", pool |-> p, value |-> None]
    /\ UNCHANGED <<now, calls, graph, run, fs>>

MarkUsed(p, i) ==
    /\ i \in 1..Len(pools[p].keys)
    /\ pools[p].keys[i].calls_count < MaxUsed
    /\ pools' = [pools EXCEPT ![p].keys[i] = mark_used(@, now)]
    /\ ret' = [op |-> "mark_used", pool |-> p, value |-> None]
    /\ UNCHANGED <<now, calls, graph, run, fs>>

MarkError(p, i) ==
    /\ i \in 1..Len(pools[p].keys)
    /\ pools[p].keys[i].errors < MaxErrors
    /\ pools' = [pools EXCEPT ![p].keys[i] = mark_error(@)]
    /\ ret' = [op |-> "mark_error", pool |-> p, value |-> None]
    /\ UNCHANGED <<now, calls, graph, run, fs>>

GetNextKey(p) ==
    /\ pools[p].round_robin_index < MaxIndex
    /\ pools' = [pools EXCEPT ![p] = get_next_key(@).pool]
    /\ ret' = [op |-> "get_next_key", pool |-> p, value |-> get_next_key(pools[p]).value]
    /\ UNCHANGED <<now, calls, graph, run, fs>>

GetLeastUsedKey(p) ==
    /\ ret' = [op |-> "get_least_used_key", pool |-> p,
               value |-> get_least_used_key(pools[p])]
    /\ UNCHANGED <<pools, now, calls, graph, run, fs>>

GetKeysForParallel(p, count) ==
    /\ ret' = [op |-> "get_keys_for_parallel", pool |-> p, count |-> count,
               value |-> get_keys_for_parallel(pools[p], count)]
    /\ UNCHANGED <<pools, now, calls, graph, run, fs>>

Tick ==
    /\ now < MaxTime
    /\ now' = now + 1
    /\ UNCHANGED <<pools, ret, calls, graph, run, fs>>

-----------------------------------------------------------------------------
(* ParallelLLMManager: call_parallel and its attempts (_single_call) *)

CallIds == {1}

Idle == [pc |-> "idle", seq |-> 0]

Pending == [pending |-> TRUE]

\* pool = self.openai_pool if provider == "openai" else self.qwen_pool
SelectPool(provider) == IF provider = "openai" THEN "openai" ELSE "qwen"

(* str.lower() and the substring test "x in s" *)

lower_char(c) ==
    LET UpperCase ==
            <<"A", "B", "C", "D", "E", "F", "G", "H", "I", "J", "K", "L", "M", "N", "O",
              "P", "Q", "R", "S", "T", "U", "V", "W", "X", "Y", "Z">>
        LowerCase ==
            <<"a", "b", "c", "d", "e", "f", "g", "h", "i", "j", "k", "l", "m", "n", "o",
              "p", "q", "r", "s", "t", "u", "v", "w", "x", "y", "z">>
    IN  IF \E j \in 1..Len(UpperCase) : UpperCase[j] = c
        THEN LowerCase[CHOOSE j \in 1..Len(UpperCase) : UpperCase[j] = c]
        ELSE c

lower(s) == [j \in 1..Len(s) |-> lower_char(s[j])]

\* sub in s
contains(s, sub) ==
    \E j \in 0..(Len(s) - Len(sub)) : SubSeq(s, j + 1, j + Len(sub)) = sub

(* model identifiers *)

ModelName ==
    [gpt_5_1_codex |-> <<"g", "p", "t", "-", "5", ".", "1", "-", "c", "o", "d", "e", "x">>,
     gpt_5_1_codex_mini |-> <<"g", "p", "t", "-", "5", ".", "1", "-", "c", "o", "d", "e", "x",
                              "-", "m", "i", "n", "i">>,
     gpt_5_1_codex_max |-> <<"g", "p", "t", "-", "5", ".", "1", "-", "c", "o", "d", "e", "x",
                             "-", "m", "a", "x">>,
     GPT_5_1_Codex |-> <<"G", "P", "T", "-", "5", ".", "1", "-", "C", "o", "d", "e", "x">>,
     gpt_5 |-> <<"g", "p", "t", "-", "5">>,
     o1 |-> <<"o", "1">>,
     o3 |-> <<"o", "3">>,
     o3_mini |-> <<"o", "3", "-", "m", "i", "n", "i">>,
     gpt_4o_mini |-> <<"g", "p", "t", "-", "4", "o", "-", "m", "i", "n", "i">>,
     qwen_turbo |-> <<"q", "w", "e", "n", "-", "t", "u", "r", "b", "o">>]

RESPONSES_API_MODELS ==
    <<ModelName.gpt_5_1_codex, ModelName.gpt_5_1_codex_mini, ModelName.gpt_5_1_codex_max>>

ReasoningPatterns == <<ModelName.gpt_5, ModelName.o1, ModelName.o3>>

\* any(x in model.lower() for x in patterns)
any_in(patterns, model) ==
    \E j \in 1..Len(patterns) : contains(lower(model), patterns[j])

use_responses_api(model) == any_in(RESPONSES_API_MODELS, model)

is_reasoning_model(model) == any_in(ReasoningPatterns, model)

\* max_tokens: int = 4000
DefaultMaxTokens == 4000

(* the request of one attempt *)

Messages ==
    <<[role |-> "system", content |-> <<"s">>], [role |-> "tool", content |-> <<"t">>],
      [role |-> "user", content |-> <<"u">>]>>

RolePrefix(role) ==
    CASE role = "system" -> <<"S", "y", "s", "t", "e", "m", ":", " ">>
      [] role = "user" -> <<"U", "s", "e", "r", ":", " ">>
      [] role = "assistant" -> <<"A", "s", "s", "i", "s", "t", "a", "n", "t", ":", " ">>

\* the list "parts" of _messages_to_input
RECURSIVE input_parts(_)
input_parts(messages) ==
    IF messages = <<>> THEN <<>>
    ELSE (IF Head(messages).role \in {"system", "user", "assistant"}
          THEN <<RolePrefix(Head(messages).role) \o Head(messages).content>>
          ELSE <<>>) \o input_parts(Tail(messages))

\* "\n\n".join(parts)
RECURSIVE join(_)
join(parts) ==
    IF parts = <<>> THEN <<>>
    ELSE IF Len(parts) = 1 THEN parts[1]
    ELSE parts[1] \o <<"\n", "\n">> \o join(Tail(parts))

messages_to_input(messages) == join(input_parts(messages))

\* what _single_call sends: the keyword arguments of client.responses.create
\* or of client.chat.completions.create (api_params), tagged with the API
build_request(model, messages, temperature, max_tokens, reasoning_effort) ==
    IF use_responses_api(model)
    THEN [api |-> "responses", model |-> model, input |-> messages_to_input(messages),
          max_output_tokens |-> max_tokens]
    ELSE IF is_reasoning_model(model)
    THEN [api |-> "chat", model |-> model, messages |-> messages,
          max_completion_tokens |-> max_tokens, reasoning_effort |-> reasoning_effort]
    ELSE IF temperature # None
         THEN [api |-> "chat", model |-> model, messages |-> messages,
               max_tokens |-> max_tokens, temperature |-> temperature.float]
         ELSE [api |-> "chat", model |-> model, messages |-> messages,
               max_tokens |-> max_tokens]

(* what the network gives one attempt *)

\* a chat-completions response: len(response.choices), choices[0].message.content
\* (an Optional[str] is None or [str |-> text])
ChatResponse(choices, content) ==
    [kind |-> "response", api |-> "chat", choices |-> choices, content |-> content,
     model |-> ModelName.gpt_4o_mini, usage |-> None, finish_reason |-> "stop"]

\* a Responses API response: response.output, a list of typed blocks (an
\* Optional[list] is None or [list |-> items])
ResponsesResponse(output) ==
    [kind |-> "response", api |-> "responses", output |-> output,
     model |-> ModelName.gpt_5_1_codex, usage |-> [total_tokens |-> 7]]

OutputText(text) == [type |-> "output_text", text |-> text]

Message(content) == [type |-> "message", content |-> content]

\* asyncio.wait_for times out, the client raises, or a response arrives
Replies ==
    { [kind |-> "timeout"], [kind |-> "exception"],
      ChatResponse(1, [str |-> <<"a">>]), ChatResponse(1, [str |-> <<"b">>]),
      ChatResponse(0, None) }

\* the replies of the gateway and, for both APIs, replies without text
AdapterReplies ==
    Replies \cup
    { ChatResponse(1, None), ChatResponse(1, [str |-> <<" ">>]),
      ChatResponse(1, [str |-> <<>>]),
      ResponsesResponse(None), ResponsesResponse([list |-> <<>>]),
      ResponsesResponse([list |-> <<[type |-> "reasoning"],
                                    Message([list |-> <<[type |-> "refusal"]>>])>>]),
      ResponsesResponse([list |-> <<Message([list |-> <<OutputText(<<" ">>)>>])>>]),
      ResponsesResponse([list |-> <<Message([list |-> <<OutputText(<<"a">>),
                                                        OutputText(<<"b", " ">>)>>])>>]),
      ResponsesResponse([list |-> <<Message(None)>>]) }

\* usage of a chat-completions result: the response's counts, or zeros
Usage(response) ==
    IF response.usage = None
    THEN [prompt_tokens |-> 0, completion_tokens |-> 0, total_tokens |-> 0]
    ELSE response.usage

\* getattr(response.usage, name, 0) if hasattr(response, 'usage') else 0
UsageField(response, name) ==
    IF "usage" \in DOMAIN response /\ name \in DOMAIN response.usage
    THEN response.usage[name] ELSE 0

\* the loop "for content in item.content: if content.type == 'output_text':
\* output_text += content.text"
RECURSIVE content_text(_)
content_text(content) ==
    IF content = <<>> THEN <<>>
    ELSE (IF Head(content).type = "output_text" THEN Head(content).text ELSE <<>>)
            \o content_text(Tail(content))

\* the loop "for item in response.output" from the given items on, with the
\* text gathered so far: the whole text, or the TypeError of iterating a
\* message block whose content is None
RECURSIVE items_text(_, _)
items_text(items, text) ==
    IF items = <<>> THEN [value |-> text]
    ELSE IF Head(items).type # "message" THEN items_text(Tail(items), text)
    ELSE IF Head(items).content = None THEN [raise |-> "TypeError"]
    ELSE items_text(Tail(items), text \o content_text(Head(items).content.list))

\* output_text = ""; if hasattr(response, 'output') and response.output: ...
output_text(output) ==
    IF output = None THEN [value |-> <<>>] ELSE items_text(output.list, <<>>)

\* str(response): the printed form of the response object, never empty
str_response(response) == <<"R", "e", "s", "p", "o", "n", "s", "e", "(", ")">>

\* the Responses API branch of _single_call after the response has arrived
responses_result(model, reply) ==
    LET text == output_text(reply.output)
    IN  IF "raise" \in DOMAIN text
        THEN [updates |-> <<"mark_error">>, result |-> [error |-> text.raise]]
        ELSE [updates |-> <<"mark_used">>,
              result |-> [content |-> [str |-> IF text.value # <<>> THEN strip(text.value)
                                               ELSE str_response(reply)],
                          model |-> IF "model" \in DOMAIN reply THEN reply.model ELSE model,
                          usage |-> [prompt_tokens |-> UsageField(reply, "prompt_tokens"),
                                     completion_tokens |-> UsageField(reply, "completion_tokens"),
                                     total_tokens |-> UsageField(reply, "total_tokens")],
                          finish_reason |-> "stop"]]

\* mutant: a blank message body is passed on as it is
chat_content_unstripped(content) ==
    IF content = None THEN [str |-> <<>>] ELSE content

\* "if content is None or content.strip() == '': content = ''"
chat_content(content) ==
    IF content = None \/ strip(content.str) = <<>> THEN [str |-> <<>>] ELSE content

\* mutant: a reply without choices yields a dict with both content and error
chat_result_both(reply) ==
    IF reply.choices = 0
    THEN [updates |-> <<"mark_used", "mark_error">>,
          result |-> [content |-> [str |-> <<>>], error |-> "list index out of range"]]
    ELSE [updates |-> <<"mark_used">>,
          result |-> [content |-> chat_content(reply.content), model |-> reply.model,
                      usage |-> Usage(reply), finish_reason |-> reply.finish_reason]]

\* the chat-completions branch of _single_call after the response has arrived:
\* key_info.mark_used() precedes response.choices[0], whose IndexError is caught
\* by "except Exception"
chat_result(reply) ==
    IF reply.choices = 0
    THEN [updates |-> <<"mark_used", "mark_error">>,
          result |-> [error |-> "list index out of range"]]
    ELSE [updates |-> <<"mark_used">>,
          result |-> [content |-> chat_content(reply.content), model |-> reply.model,
                      usage |-> Usage(reply), finish_reason |-> reply.finish_reason]]

\* mutant: a timeout leaves the key unmarked
single_call_timeout_unmarked(request, reply) ==
    IF reply.kind = "timeout"
    THEN [updates |-> <<>>, result |-> [error |-> "timeout"]]
    ELSE IF reply.kind = "exception"
    THEN [updates |-> <<"mark_error">>, result |-> [error |-> "exception"]]
    ELSE IF request.api = "responses" THEN responses_result(request.model, reply)
    ELSE chat_result(reply)

\* mutant: "except Exception" is missing, the client's exception leaves
\* _single_call and gather hands back the exception object
single_call_uncaught(request, reply) ==
    IF reply.kind = "timeout"
    THEN [updates |-> <<"mark_error">>, result |-> [error |-> "timeout"]]
    ELSE IF reply.kind = "exception"
    THEN [updates |-> <<>>, result |-> [raise |-> "exception"]]
    ELSE IF request.api = "responses" THEN responses_result(request.model, reply)
    ELSE chat_result(reply)

\* _single_call from the return of its network await on, in the branch
\* ("if use_responses_api") that built the request: the pool updates it invokes
\* on its key, in order, and the dict it returns
single_call(request, reply) ==
    IF reply.kind = "timeout"
    THEN [updates |-> <<"mark_error">>, result |-> [error |-> "timeout"]]
    ELSE IF reply.kind = "exception"
    THEN [updates |-> <<"mark_error">>, result |-> [error |-> "exception"]]
    ELSE IF request.api = "responses" THEN responses_result(request.model, reply)
    ELSE chat_result(reply)

\* the key after the pool updates of one attempt
RECURSIVE ApplyUpdates(_, _, _)
ApplyUpdates(k, updates, t) ==
    IF updates = <<>> THEN k
    ELSE ApplyUpdates(IF Head(updates) = "mark_used" THEN mark_used(k, t) ELSE mark_error(k),
                      Tail(updates), t)

\* isinstance(result, dict): not so for an exception object handed back by
\* gather(return_exceptions=True)
IsDict(r) == "pending" \notin DOMAIN r /\ "raise" \notin DOMAIN r

\* mutant: successful.insert(0, result) in place of append
RECURSIVE successful_prepended(_)
successful_prepended(results) ==
    IF results = <<>> THEN <<>>
    ELSE successful_prepended(Tail(results)) \o
         (IF "pending" \notin DOMAIN Head(results) /\ "error" \notin DOMAIN Head(results)
          THEN <<Head(results)>> ELSE <<>>)

\* the loop "for result in results: if isinstance(result, dict) and
\* 'error' not in result: successful.append(result)"
RECURSIVE successful(_)
successful(results) ==
    IF results = <<>> THEN <<>>
    ELSE (IF IsDict(Head(results)) /\ "error" \notin DOMAIN Head(results)
          THEN <<Head(results)>> ELSE <<>>) \o successful(Tail(results))

(* ParallelLLMManager._compute_timeout and the timeout of one attempt *)

\* the divisor 2000.0 and the clamp limits 1.0 and 5.0 of the multiplier
TokensPerUnit == 2000
MinMultiplier == 1
MaxMultiplier == 5

Min(a, b) == IF a <= b THEN a ELSE b

Max(a, b) == IF a >= b THEN a ELSE b

\* base_timeout = float(self.request_timeout_seconds or 60.0)
base_timeout(request_timeout_seconds) ==
    IF request_timeout_seconds = 0 THEN 60 ELSE request_timeout_seconds

\* mutant: the multiplier is not capped
compute_timeout_uncapped(request_timeout_seconds, max_tokens) ==
    IF max_tokens = None THEN base_timeout(request_timeout_seconds) * TokensPerUnit
    ELSE IF max_tokens.int = 0 \/ max_tokens.int <= 0
         THEN base_timeout(request_timeout_seconds) * TokensPerUnit
    ELSE base_timeout(request_timeout_seconds) *
            Max(MinMultiplier * TokensPerUnit, max_tokens.int)

\* _compute_timeout, in units of 1/2000 second so that the value is an
\* integer: base_timeout * max(1.0, min(max_tokens / 2000.0, 5.0)) * 2000.
\* The float product rounds monotonically, so order and the two limits are
\* those of the exact value.
compute_timeout(request_timeout_seconds, max_tokens) ==
    IF max_tokens = None THEN base_timeout(request_timeout_seconds) * TokensPerUnit
    ELSE IF max_tokens.int = 0 \/ max_tokens.int <= 0
         THEN base_timeout(request_timeout_seconds) * TokensPerUnit
    ELSE base_timeout(request_timeout_seconds) *
            Max(MinMultiplier * TokensPerUnit,
                Min(max_tokens.int, MaxMultiplier * TokensPerUnit))

\* self.request_timeout_seconds of the manager: the setting it was built with,
\* 60.0 for a manager built without Settings
request_timeout_seconds(r) ==
    IF "request_timeout_seconds" \in DOMAIN r THEN r.request_timeout_seconds ELSE 60

\* mutant: the attempt waits for the base timeout, not for the one it is given
effective_timeout_base(timeout_seconds, request_timeout) ==
    base_timeout(request_timeout) * TokensPerUnit

\* effective_timeout = float(timeout_seconds or self.request_timeout_seconds or 60.0)
\* of _single_call, in units of 1/2000 second like timeout_seconds
effective_timeout(timeout_seconds, request_timeout) ==
    IF timeout_seconds # 0 THEN timeout_seconds
    ELSE base_timeout(request_timeout) * TokensPerUnit

\* asyncio.wait_for(..., timeout): the reply of the network if it came within
\* the timeout, asyncio.TimeoutError otherwise
wait_for(reply, latency, timeout) ==
    IF latency >= timeout THEN [kind |-> "timeout"] ELSE reply

\* the call record at "await asyncio.gather": one attempt per key is in
\* flight, each sending the same request built from the call's arguments. errors0 (the errors of the pool's
\* records at dispatch), replies and updates (what each attempt received and
\* the pool updates it invoked) are history, read by no action.
Dispatched(seq, provider, model, keys, args, request) ==
    LET adaptive_timeout == compute_timeout(request_timeout_seconds(run),
                                            [int |-> args.max_tokens])
    IN
    [pc |-> "gather", seq |-> seq, provider |-> provider, pool |-> SelectPool(provider),
     model |-> model, keys |-> keys, args |-> args, request |-> request,
     adaptive_timeout |-> adaptive_timeout,
     timeouts |-> [i \in 1..Len(keys) |->
                        effective_timeout(adaptive_timeout, request_timeout_seconds(run))],
     waited |-> [i \in 1..Len(keys) |-> None],
     results |-> [i \in 1..Len(keys) |-> Pending],
     replies |-> [i \in 1..Len(keys) |-> Pending],
     updates |-> [i \in 1..Len(keys) |-> <<>>],
     errors0 |-> [i \in 1..Len(pools[SelectPool(provider)].keys) |->
                        pools[SelectPool(provider)].keys[i].errors]]

\* mutant: the "if not keys: raise" test is missing
CallParallelUnchecked(c, provider, model, n_parallel, temperature, max_tokens, reasoning_effort) ==
    LET p == SelectPool(provider)
        keys == get_keys_for_parallel(pools[p], n_parallel)
    IN  /\ calls[c].pc \in {"idle", "returned", "raised"}
        /\ calls[c].seq < MaxCalls
        /\ calls' = [calls EXCEPT ![c] =
                Dispatched(calls[c].seq + 1, provider, model, keys,
                           [temperature |-> temperature, max_tokens |-> max_tokens,
                            reasoning_effort |-> reasoning_effort],
                           build_request(model, Messages, temperature, max_tokens,
                                         reasoning_effort))]
        /\ UNCHANGED <<pools, now, ret, graph, run, fs>>

\* call_parallel up to "await asyncio.gather": the keys are drawn, and either
\* the call raises or one attempt per key is in flight.
CallParallel(c, provider, model, n_parallel, temperature, max_tokens, reasoning_effort) ==
    LET p == SelectPool(provider)
        keys == get_keys_for_parallel(pools[p], n_parallel)
        args == [temperature |-> temperature, max_tokens |-> max_tokens,
                 reasoning_effort |-> reasoning_effort]
    IN  /\ calls[c].pc \in {"idle", "returned", "raised"}
        /\ calls[c].seq < MaxCalls
        /\ calls' = [calls EXCEPT ![c] =
                IF keys = <<>>
                THEN [Dispatched(calls[c].seq + 1, provider, model, keys, args, None)
                        EXCEPT !.pc = "raised"] @@ [error |-> "No active API keys available"]
                ELSE Dispatched(calls[c].seq + 1, provider, model,
                                SubSeq(keys, 1, n_parallel), args,
                                build_request(model, Messages, temperature, max_tokens,
                                              reasoning_effort))]
        /\ UNCHANGED <<pools, now, ret, graph, run, fs>>

\* mutant: the attempt counts on from the errors its record had at dispatch
AttemptSettlesStale(c, i, reply) ==
    LET call == calls[c]
        out == single_call(call.request, reply)
        k == [pools[call.pool].keys[call.keys[i]] EXCEPT !.errors = call.errors0[call.keys[i]]]
        k2 == ApplyUpdates(k, out.updates, now)
    IN  /\ call.pc = "gather"
        /\ i \in 1..Len(call.results)
        /\ call.results[i] = Pending
        /\ reply.kind = "response" => reply.api = call.request.api
        /\ k2.calls_count <= MaxUsed
        /\ k2.errors <= MaxErrors
        /\ pools' = [pools EXCEPT ![call.pool].keys[call.keys[i]] = k2]
        /\ calls' = [calls EXCEPT ![c].results[i] = out.result,
                                  ![c].replies[i] = reply,
                                  ![c].updates[i] = out.updates]
        /\ UNCHANGED <<now, ret, graph, run, fs>>

\* attempt i of call c resumes from its network await and runs to its return;
\* a response has the shape of the API the request went to
AttemptSettles(c, i, reply) ==
    LET call == calls[c]
        out == single_call(call.request, reply)
        k == pools[call.pool].keys[call.keys[i]]
        k2 == ApplyUpdates(k, out.updates, now)
    IN  /\ call.pc = "gather"
        /\ i \in 1..Len(call.results)
        /\ call.results[i] = Pending
        /\ reply.kind = "response" => reply.api = call.request.api
        /\ k2.calls_count <= MaxUsed
        /\ k2.errors <= MaxErrors
        /\ pools' = [pools EXCEPT ![call.pool].keys[call.keys[i]] = k2]
        /\ calls' = [calls EXCEPT ![c].results[i] = out.result,
                                  ![c].replies[i] = reply,
                                  ![c].updates[i] = out.updates]
        /\ UNCHANGED <<now, ret, graph, run, fs>>

\* mutant: an attempt that times out takes its unsettled siblings down with it
AttemptSettlesAfterCancelling(c, i, reply, latency) ==
    LET call == calls[c]
        got == wait_for(reply, latency, call.timeouts[i])
        out == single_call(call.request, got)
        k == pools[call.pool].keys[call.keys[i]]
        k2 == ApplyUpdates(k, out.updates, now)
    IN  /\ call.pc = "gather"
        /\ i \in 1..Len(call.results)
        /\ call.results[i] = Pending
        /\ reply.kind = "response" => reply.api = call.request.api
        /\ k2.calls_count <= MaxUsed
        /\ k2.errors <= MaxErrors
        /\ pools' = [pools EXCEPT ![call.pool].keys[call.keys[i]] = k2]
        /\ calls' = [calls EXCEPT
                ![c].results = [j \in 1..Len(call.results) |->
                    IF j = i THEN out.result
                    ELSE IF got.kind = "timeout" /\ call.results[j] = Pending
                         THEN [error |-> "cancelled"]
                    ELSE call.results[j]],
                ![c].replies[i] = got,
                ![c].updates[i] = out.updates,
                ![c].waited[i] = [int |-> latency]]
        /\ UNCHANGED <<now, ret, graph, run, fs>>

\* attempt i of call c, whose network reply takes latency (in units of 1/2000
\* second) to come: asyncio.wait_for gives the reply or the timeout, and the
\* attempt runs to its return. waited is history, read by no action.
AttemptSettlesAfter(c, i, reply, latency) ==
    LET call == calls[c]
        got == wait_for(reply, latency, call.timeouts[i])
        out == single_call(call.request, got)
        k == pools[call.pool].keys[call.keys[i]]
        k2 == ApplyUpdates(k, out.updates, now)
    IN  /\ call.pc = "gather"
        /\ i \in 1..Len(call.results)
        /\ call.results[i] = Pending
        /\ reply.kind = "response" => reply.api = call.request.api
        /\ k2.calls_count <= MaxUsed
        /\ k2.errors <= MaxErrors
        /\ pools' = [pools EXCEPT ![call.pool].keys[call.keys[i]] = k2]
        /\ calls' = [calls EXCEPT ![c].results[i] = out.result,
                                  ![c].replies[i] = got,
                                  ![c].updates[i] = out.updates,
                                  ![c].waited[i] = [int |-> latency]]
        /\ UNCHANGED <<now, ret, graph, run, fs>>

\* mutant: the call raises as soon as one attempt has failed
CallParallelFailsFast(c) ==
    LET call == calls[c]
        good == successful(call.results)
    IN  /\ call.pc = "gather"
        /\ \/ \A i \in 1..Len(call.results) : call.results[i] # Pending
           \/ \E i \in 1..Len(call.results) : "error" \in DOMAIN call.results[i]
        /\ calls' = [calls EXCEPT ![c] =
                IF good = <<>> \/ \E i \in 1..Len(call.results) : call.results[i] = Pending
                THEN [call EXCEPT !.pc = "raised"] @@ [error |-> "All parallel API calls failed"]
                ELSE [call EXCEPT !.pc = "returned"] @@ [value |-> good]]
        /\ UNCHANGED <<pools, now, ret, graph, run, fs>>

\* mutant: the "if not successful: raise" test is missing
CallParallelReturnsAnyway(c) ==
    /\ calls[c].pc = "gather"
    /\ \A i \in 1..Len(calls[c].results) : calls[c].results[i] # Pending
    /\ calls' = [calls EXCEPT ![c] =
            [calls[c] EXCEPT !.pc = "returned"] @@ [value |-> successful(calls[c].results)]]
    /\ UNCHANGED <<pools, now, ret, graph, run, fs>>

\* gather has every result: the rest of call_parallel
CallParallelReturns(c) ==
    LET call == calls[c]
        good == successful(call.results)
    IN  /\ call.pc = "gather"
        /\ \A i \in 1..Len(call.results) : call.results[i] # Pending
        /\ calls' = [calls EXCEPT ![c] =
                IF good = <<>>
                THEN [call EXCEPT !.pc = "raised"] @@ [error |-> "All parallel API calls failed"]
                ELSE [call EXCEPT !.pc = "returned"] @@ [value |-> good]]
        /\ UNCHANGED <<pools, now, ret, graph, run, fs>>

-----------------------------------------------------------------------------
(* Specifications *)

\* nx.DiGraph(): nodes in insertion order, the attribute dict of each node, and
\* the edges in insertion order
EmptyGraph == [nodes |-> <<>>, data |-> <<>>, edges |-> <<>>]

\* the file system where no file operation is modelled
NoFiles == [dirs |-> {}, files |-> {}]

NoRun == [pc |-> "new"]

InitPool ==
    /\ pools = [p \in Providers |-> APIKeyPool]
    /\ now = 0
    /\ ret = NoReturn
    /\ calls = [c \in CallIds |-> Idle]
    /\ graph = EmptyGraph
    /\ fs = NoFiles
    /\ run = NoRun

NextPool ==
    \/ \E key \in { <<>>, <<" ">>, <<"#", "k">>, <<"k">>, <<" ", "k">> } :
            AddKey("openai", key)
    \/ \E i \in 1..MaxKeys : MarkUsed("openai", i)
    \/ \E i \in 1..MaxKeys : MarkError("openai", i)
    \/ GetNextKey("openai")
    \/ GetLeastUsedKey("openai")
    \/ \E count \in 0..MaxCount : GetKeysForParallel("openai", count)
    \/ Tick

\* one APIKeyPool driven through its methods
SpecPool == InitPool /\ [][NextPool]_vars

\* ParallelLLMManager.__init__: each pool holds the keys loaded from its key file
LoadedPool(p, n) ==
    [keys |-> [i \in 1..n |-> APIKeyInfo(<<"k">>, p)], round_robin_index |-> 0]

Init ==
    /\ \E n \in [Providers -> 0..MaxKeys] : pools = [p \in Providers |-> LoadedPool(p, n[p])]
    /\ now = 0
    /\ ret = NoReturn
    /\ calls = [c \in CallIds |-> Idle]
    /\ graph = EmptyGraph
    /\ fs = NoFiles
    /\ run = NoRun

Next ==
    \/ \E c \in CallIds, provider \in {"openai", "qwen"},
          model \in {ModelName.gpt_4o_mini}, n \in 0..MaxFanOut :
            CallParallel(c, provider, model, n, None, DefaultMaxTokens, "medium")
    \/ \E c \in CallIds, i \in 1..MaxFanOut, reply \in Replies : AttemptSettles(c, i, reply)
    \/ \E c \in CallIds : CallParallelReturns(c)

\* the gateway: call_parallel invocations over the manager's two pools. The
\* gateway reads the clock only to stamp last_used, which none of its steps
\* reads; the clock stands still here and advances in SpecPool.
Spec == Init /\ [][Next]_vars

(* add_key called with tokens of every kind (empty, blank, comment-like,
   comment-like behind whitespace, plain, plain within whitespace), with
   records failing in between. ret.key is the token of the call. *)

AddKeyToken(p, key) ==
    /\ Len(pools[p].keys) < MaxKeys
    /\ pools' = [pools EXCEPT ![p] = add_key(@, key, p)]
    /\ ret' = [op |-> "add_key", pool |-> p, key |-> key, value |-> None]
    /\ UNCHANGED <<now, calls, graph, run, fs>>

NextAddKey ==
    \/ \E key \in { <<>>, <<" ">>, <<" ", " ">>, <<"#">>, <<"#", "k">>, <<"k">>,
                    <<" ", "k", " ">>, <<" ", "#", "k">>, <<"k", "#">> } :
            AddKeyToken("openai", key)
    \/ \E i \in 1..MaxKeys : MarkError("openai", i)

SpecAddKey == InitPool /\ [][NextAddKey]_vars

(* Rotation: get_next_key called over and over on a pool of three records,
   with records failing in between. ret.streak is the list of records the
   calls have returned since the set of active records last changed (history,
   read by no action). *)

MaxTurns == 6       \* get_next_key calls on one pool

GetNextKeyInTurn(p) ==
    /\ pools[p].round_robin_index < MaxTurns
    /\ Len(ret.streak) < MaxTurns
    /\ pools' = [pools EXCEPT ![p] = get_next_key(@).pool]
    /\ ret' = [op |-> "get_next_key", pool |-> p, value |-> get_next_key(pools[p]).value,
               streak |-> Append(ret.streak, get_next_key(pools[p]).value)]
    /\ UNCHANGED <<now, calls, graph, run, fs>>

MarkErrorInTurn(p, i) ==
    /\ i \in 1..Len(pools[p].keys)
    /\ pools[p].keys[i].errors < MaxErrors
    /\ pools' = [pools EXCEPT ![p].keys[i] = mark_error(@)]
    /\ ret' = [op |-> "mark_error", pool |-> p, value |-> None,
               streak |-> IF active_keys(pools'[p]) = active_keys(pools[p])
                          THEN ret.streak ELSE <<>>]
    /\ UNCHANGED <<now, calls, graph, run, fs>>

InitRotation ==
    /\ pools = [p \in Providers |-> LoadedPool(p, IF p = "openai" THEN MaxKeys + 1 ELSE 0)]
    /\ now = 0
    /\ ret = [op |-> "none", streak |-> <<>>]
    /\ calls = [c \in CallIds |-> Idle]
    /\ graph = EmptyGraph
    /\ fs = NoFiles
    /\ run = NoRun

NextRotation ==
    \/ GetNextKeyInTurn("openai")
    \/ \E i \in 1..(MaxKeys + 1) : MarkErrorInTurn("openai", i)

SpecRotation == InitRotation /\ [][NextRotation]_vars

(* The protocol adapter: one call_parallel of one or two attempts on a loaded
   openai pool, over models of every pattern, caller parameters and replies
   of both APIs *)

InitAdapter ==
    /\ pools = [p \in Providers |-> LoadedPool(p, IF p = "openai" THEN 1 ELSE 0)]
    /\ now = 0
    /\ ret = NoReturn
    /\ calls = [c \in CallIds |-> [pc |-> "idle", seq |-> MaxCalls - 1]]
    /\ graph = EmptyGraph
    /\ fs = NoFiles
    /\ run = NoRun

NextAdapter ==
    \/ \E c \in CallIds, n \in 1..2,
          model \in {ModelName.gpt_4o_mini, ModelName.qwen_turbo, ModelName.gpt_5,
                     ModelName.o3_mini, ModelName.GPT_5_1_Codex,
                     ModelName.gpt_5_1_codex_mini},
          \* temperature: Optional[float], None or [float |-> tenths]
          temperature \in {None, [float |-> 7]}, reasoning_effort \in {"low", "high"} :
            CallParallel(c, "openai", model, n, temperature, DefaultMaxTokens,
                         reasoning_effort)
    \/ \E c \in CallIds, i \in 1..2, reply \in AdapterReplies : AttemptSettles(c, i, reply)
    \/ \E c \in CallIds : CallParallelReturns(c)

SpecAdapter == InitAdapter /\ [][NextAdapter]_vars

(* Overlapping calls: two call_parallel invocations, each made once, on one
   openai pool of one or two records; their attempts settle in any order *)

InitOverlap ==
    /\ \E n \in 1..2 : pools = [p \in Providers |-> LoadedPool(p, IF p = "openai" THEN n ELSE 0)]
    /\ now = 0
    /\ ret = NoReturn
    /\ calls = [c \in 1..2 |-> [pc |-> "idle", seq |-> MaxCalls - 1]]
    /\ graph = EmptyGraph
    /\ fs = NoFiles
    /\ run = NoRun

NextOverlap ==
    \/ \E c \in 1..2, n \in 1..2 :
            CallParallel(c, "openai", ModelName.gpt_4o_mini, n, None, DefaultMaxTokens, "medium")
    \/ \E c \in 1..2, i \in 1..2,
          reply \in { [kind |-> "timeout"], ChatResponse(1, [str |-> <<"a">>]),
                      ChatResponse(0, None) } :
            AttemptSettles(c, i, reply)
    \/ \E c \in 1..2 : CallParallelReturns(c)

SpecOverlap == InitOverlap /\ [][NextOverlap]_vars

(* The attempt timeout: one call_parallel of one or two attempts by a manager
   built with a timeout setting, over token budgets below, between and above
   the clamp limits and over network latencies around every timeout *)

\* self.request_timeout_seconds: 60.0 by default, Settings.timeout_seconds
\* (an int validated to 10..600) otherwise
TimeoutSettings == {10, 60, 600}

InitDeadline ==
    /\ pools = [p \in Providers |-> LoadedPool(p, IF p = "openai" THEN 1 ELSE 0)]
    /\ now = 0
    /\ ret = NoReturn
    /\ calls = [c \in CallIds |-> [pc |-> "idle", seq |-> MaxCalls - 1]]
    /\ graph = EmptyGraph
    /\ fs = NoFiles
    /\ \E timeout_seconds \in TimeoutSettings :
            run = [pc |-> "manager", request_timeout_seconds |-> timeout_seconds]

NextDeadline ==
    \/ \E c \in CallIds, n \in 1..2, max_tokens \in {1000, 4000, 20000} :
            CallParallel(c, "openai", ModelName.gpt_4o_mini, n, None, max_tokens, "medium")
    \* what the network gives: a response or an exception of the client
    \* and the time it takes, in units of 1/2000 second: none, and at and just
    \* below 1, 2 and 5 times each setting
    \/ \E c \in CallIds, i \in 1..2, reply \in { r \in Replies : r.kind # "timeout" },
          latency \in {0} \cup { b * m * TokensPerUnit - d :
                                    b \in TimeoutSettings, m \in {1, 2, 5}, d \in {0, 1} } :
            AttemptSettlesAfter(c, i, reply, latency)
    \/ \E c \in CallIds : CallParallelReturns(c)

SpecDeadline == InitDeadline /\ [][NextDeadline]_vars

-----------------------------------------------------------------------------
(* TaskGraph (src/tasks/task.py) *)

MaxLoads == 1       \* load_plan calls on one scheduler

PENDING == "pending"
RUNNING == "running"
DONE == "done"
FAILED == "failed"

KeyError == [raise |-> "KeyError"]

Raises(r) == "raise" \in DOMAIN r

\* Task(task_id=..., summary=..., assignee=...) with the dataclass defaults
Task(task_id) == [task_id |-> task_id, status |-> PENDING, outputs |-> {}]

RECURSIVE Contains(_, _)
Contains(s, x) == s # <<>> /\ (Head(s) = x \/ Contains(Tail(s), x))

\* DiGraph.add_node(n, **attr): a new node is appended, an old one keeps its
\* place; the attributes given are set on it
add_node(g, n, attr) ==
    IF Contains(g.nodes, n)
    THEN [g EXCEPT !.data[n] = attr @@ @]
    ELSE [g EXCEPT !.nodes = Append(@, n), !.data = (n :> attr) @@ @]

\* DiGraph.add_edge(u, v): both ends become nodes (without attributes)
add_edge(g, u, v) ==
    LET g2 == add_node(add_node(g, u, <<>>), v, <<>>)
    IN  IF Contains(g2.edges, <<u, v>>) THEN g2
        ELSE [g2 EXCEPT !.edges = Append(@, <<u, v>>)]

RECURSIVE add_edges(_, _, _)
add_edges(g, deps, task_id) ==
    IF deps = <<>> THEN g
    ELSE add_edges(add_edge(g, Head(deps), task_id), Tail(deps), task_id)

\* TaskGraph.add_task
add_task(g, task, depends_on) ==
    add_edges(add_node(g, task.task_id, [payload |-> task]), depends_on, task.task_id)

\* list(self.graph.predecessors(node)), in the order the edges were added
RECURSIVE predecessors(_, _)
predecessors(edges, node) ==
    IF edges = <<>> THEN <<>>
    ELSE (IF Head(edges)[2] = node THEN <<Head(edges)[1]>> ELSE <<>>)
            \o predecessors(Tail(edges), node)

\* mutant: only a FAILED predecessor blocks a task
RECURSIVE all_preds_not_failed(_, _)
all_preds_not_failed(g, preds) ==
    IF preds = <<>> THEN [value |-> TRUE]
    ELSE IF "payload" \notin DOMAIN g.data[Head(preds)] THEN [raise |-> "KeyError"]
    ELSE IF g.data[Head(preds)].payload.status = "failed" THEN [value |-> FALSE]
    ELSE all_preds_not_failed(g, Tail(preds))

\* all(self.graph.nodes[p]["payload"].status == DONE for p in predecessors):
\* stops at the first predecessor that is not DONE, raises at one without payload
RECURSIVE all_preds_done(_, _)
all_preds_done(g, preds) ==
    IF preds = <<>> THEN [value |-> TRUE]
    ELSE IF "payload" \notin DOMAIN g.data[Head(preds)] THEN KeyError
    ELSE IF g.data[Head(preds)].payload.status # DONE THEN [value |-> FALSE]
    ELSE all_preds_done(g, Tail(preds))

\* the loop of get_ready_tasks from node position i on, ready so far given
RECURSIVE ready_loop(_, _, _)
ready_loop(g, i, ready) ==
    IF i > Len(g.nodes) THEN [value |-> ready]
    ELSE LET node == g.nodes[i]
             data == g.data[node]
         IN  IF "payload" \notin DOMAIN data THEN KeyError
             ELSE IF data.payload.status # PENDING THEN ready_loop(g, i + 1, ready)
             ELSE LET ok == all_preds_done(g, predecessors(g.edges, node))
                  IN  IF Raises(ok) THEN KeyError
                      ELSE ready_loop(g, i + 1,
                                      IF ok.value THEN Append(ready, node) ELSE ready)

\* TaskGraph.get_ready_tasks: the list of ready tasks (by task_id), or KeyError
get_ready_tasks(g) == ready_loop(g, 1, <<>>)

\* mutant: a FAILED node counts as finished
RECURSIVE all_done_or_failed_from(_, _)
all_done_or_failed_from(g, i) ==
    IF i > Len(g.nodes) THEN [value |-> TRUE]
    ELSE IF "payload" \notin DOMAIN g.data[g.nodes[i]] THEN [raise |-> "KeyError"]
    ELSE IF g.data[g.nodes[i]].payload.status \notin {"done", "failed"} THEN [value |-> FALSE]
    ELSE all_done_or_failed_from(g, i + 1)

\* mutant: a node without payload is passed over
RECURSIVE all_done_skipping(_, _)
all_done_skipping(g, i) ==
    IF i > Len(g.nodes) THEN [value |-> TRUE]
    ELSE IF "payload" \notin DOMAIN g.data[g.nodes[i]] THEN all_done_skipping(g, i + 1)
    ELSE IF g.data[g.nodes[i]].payload.status # "done" THEN [value |-> FALSE]
    ELSE all_done_skipping(g, i + 1)

\* TaskGraph.all_done: all(...) over the nodes in order
RECURSIVE all_done_from(_, _)
all_done_from(g, i) ==
    IF i > Len(g.nodes) THEN [value |-> TRUE]
    ELSE IF "payload" \notin DOMAIN g.data[g.nodes[i]] THEN KeyError
    ELSE IF g.data[g.nodes[i]].payload.status # DONE THEN [value |-> FALSE]
    ELSE all_done_from(g, i + 1)

all_done(g) == all_done_from(g, 1)

-----------------------------------------------------------------------------
(* TaskScheduler (src/tasks/scheduler.py) *)

IdsInOrder == <<"A", "B", "C">>

TaskIds == { IdsInOrder[i] : i \in 1..Len(IdsInOrder) }

\* the depends_on lists a plan may give each task; "X" is the id of no task
DepLists(id) ==
    CASE id = "A" -> { <<>>, <<"C">>, <<"X">> }
      [] id = "B" -> { <<>>, <<"A">>, <<"C">> }
      [] OTHER    -> { <<>>, <<"B">>, <<"A", "B">> }

PlanNode(id, depends_on) == [id |-> id, depends_on |-> depends_on]

PlanNodes == UNION { { PlanNode(id, d) : d \in DepLists(id) } : id \in TaskIds }

\* planner output: the first k of the tasks A, B, C in this order, each with
\* one of its dependency lists, and the same with the first two tasks swapped
StraightPlans ==
    UNION { { p \in [1..k -> PlanNodes] : \A i \in 1..k : p[i].id = IdsInOrder[i] } :
                k \in 0..Len(IdsInOrder) }

Plans ==
    StraightPlans \cup
    { [i \in 1..Len(p) |-> IF i = 1 THEN p[2] ELSE IF i = 2 THEN p[1] ELSE p[i]] :
        p \in { q \in StraightPlans : Len(q) = 2 } }

RECURSIVE load_plan(_, _)
load_plan(g, plan) ==
    IF plan = <<>> THEN g
    ELSE load_plan(add_task(g, Task(Head(plan).id), Head(plan).depends_on), Tail(plan))

\* mutant: the first PENDING task is taken, whatever its predecessors
next_task_first_pending(g) ==
    LET pending == { i \in 1..Len(g.nodes) :
                        /\ "payload" \in DOMAIN g.data[g.nodes[i]]
                        /\ g.data[g.nodes[i]].payload.status = "pending" }
    IN  IF pending = {} THEN [value |-> None]
        ELSE [value |-> [task |-> g.nodes[CHOOSE i \in pending : \A j \in pending : i <= j]]]

\* TaskScheduler.next_task: ready[0] if ready else None (or the KeyError)
next_task(g) ==
    LET ready == get_ready_tasks(g)
    IN  IF Raises(ready) THEN ready
        ELSE IF ready.value # <<>> THEN [value |-> [task |-> ready.value[1]]]
        ELSE [value |-> None]

HasPayload(g, task_id) == Contains(g.nodes, task_id) /\ "payload" \in DOMAIN g.data[task_id]

\* TaskScheduler.mark_done: the graph after the call
mark_done(g, task_id, outputs) ==
    [g EXCEPT !.data[task_id].payload.status = DONE,
              !.data[task_id].payload.outputs = @ \cup outputs]

\* TaskScheduler.mark_failed: the graph after the call
mark_failed(g, task_id) ==
    [g EXCEPT !.data[task_id].payload.status = FAILED,
              !.data[task_id].payload.outputs = @ \cup {"error"}]

finished(g) == all_done(g)

(* A TaskScheduler driven through its methods; run.loads counts load_plan calls *)

LoadPlan(plan) ==
    /\ run.pc = "sched"
    /\ run.loads < MaxLoads
    /\ graph' = load_plan(graph, plan)
    /\ run' = [run EXCEPT !.loads = @ + 1]
    /\ ret' = [op |-> "load_plan", value |-> None]
    /\ UNCHANGED <<pools, now, calls, fs>>

NextTask ==
    /\ run.pc = "sched"
    /\ ret' = [op |-> "next_task"] @@ next_task(graph)
    /\ UNCHANGED <<pools, now, calls, graph, run, fs>>

GetReadyTasks ==
    /\ run.pc = "sched"
    /\ ret' = [op |-> "get_ready_tasks"] @@ get_ready_tasks(graph)
    /\ UNCHANGED <<pools, now, calls, graph, run, fs>>

Finished ==
    /\ run.pc = "sched"
    /\ ret' = [op |-> "finished"] @@ finished(graph)
    /\ UNCHANGED <<pools, now, calls, graph, run, fs>>

MarkDone(task_id, outputs) ==
    /\ run.pc = "sched"
    /\ IF HasPayload(graph, task_id)
       THEN /\ graph' = mark_done(graph, task_id, outputs)
            /\ ret' = [op |-> "mark_done", task |-> task_id, value |-> None]
       ELSE /\ graph' = graph
            /\ ret' = [op |-> "mark_done", task |-> task_id] @@ KeyError
    /\ UNCHANGED <<pools, now, calls, run, fs>>

MarkFailed(task_id) ==
    /\ run.pc = "sched"
    /\ IF HasPayload(graph, task_id)
       THEN /\ graph' = mark_failed(graph, task_id)
            /\ ret' = [op |-> "mark_failed", task |-> task_id, value |-> None]
       ELSE /\ graph' = graph
            /\ ret' = [op |-> "mark_failed", task |-> task_id] @@ KeyError
    /\ UNCHANGED <<pools, now, calls, run, fs>>

InitGraph ==
    /\ pools = [p \in Providers |-> APIKeyPool]
    /\ now = 0
    /\ ret = NoReturn
    /\ calls = [c \in CallIds |-> Idle]
    /\ graph = EmptyGraph
    /\ fs = NoFiles
    /\ run = [pc |-> "sched", loads |-> 0]

NextGraph ==
    \/ \E plan \in Plans : LoadPlan(plan)
    \/ NextTask
    \/ GetReadyTasks
    \/ Finished
    \/ \E task_id \in TaskIds \cup {"X"}, outputs \in {{"result"}} : MarkDone(task_id, outputs)
    \/ \E task_id \in TaskIds \cup {"X"} : MarkFailed(task_id)

\* one TaskScheduler driven through its methods
SpecGraph == InitGraph /\ [][NextGraph]_vars

-----------------------------------------------------------------------------
(* run (src/orchestrator.py): the loop over one TaskScheduler *)

MaxSteps == 3       \* largest --max-steps

\* scheduler = TaskScheduler(); scheduler.load_plan(plan); step = 0.
\* run.handed lists the tasks given to an agent and run.ready_called tells
\* whether get_ready_tasks was called (history, read by no action).
RunLoadsPlan(plan, max_steps) ==
    /\ run.pc = "start"
    /\ graph' = load_plan(EmptyGraph, plan)
    /\ run' = [pc |-> "loop", plan |-> plan, max_steps |-> max_steps, step |-> 0,
               task |-> None, audit_log |-> <<>>, handed |-> <<>>,
               ready_called |-> FALSE]
    /\ UNCHANGED <<pools, now, ret, calls, fs>>

\* "while step < max_steps and not scheduler.finished()", then
\* "task = scheduler.next_task(); if not task: break", up to the agent's await
RunPicksTask ==
    /\ run.pc = "loop"
    /\ IF ~(run.step < run.max_steps)
       THEN run' = [run EXCEPT !.pc = "report"]
       ELSE LET fin == finished(graph)
                task == next_task(graph)
            IN  IF Raises(fin) THEN run' = [run EXCEPT !.pc = "raised"] @@ [error |-> fin.raise]
                ELSE IF fin.value THEN run' = [run EXCEPT !.pc = "report"]
                ELSE IF Raises(task)
                     THEN run' = [run EXCEPT !.pc = "raised", !.ready_called = TRUE]
                                    @@ [error |-> task.raise]
                ELSE IF task.value = None
                     THEN run' = [run EXCEPT !.pc = "report", !.ready_called = TRUE]
                ELSE run' = [run EXCEPT !.pc = "act", !.ready_called = TRUE,
                                        !.task = task.value,
                                        !.handed = Append(@, task.value.task)]
    /\ UNCHANGED <<pools, now, ret, calls, graph, fs>>

\* agent.act returned: mark_done, the audit entry, step += 1
AgentReturns ==
    /\ run.pc = "act"
    /\ graph' = mark_done(graph, run.task.task, {"result"})
    /\ run' = [run EXCEPT !.pc = "loop", !.step = @ + 1,
                          !.audit_log = Append(@, [task |-> run.task.task, outcome |-> "result"])]
    /\ UNCHANGED <<pools, now, ret, calls, fs>>

\* mutant: the loop goes on after a failure
AgentRaisesContinues ==
    /\ run.pc = "act"
    /\ graph' = mark_failed(graph, run.task.task)
    /\ run' = [run EXCEPT !.pc = "loop", !.step = @ + 1,
                          !.audit_log = Append(@, [task |-> run.task.task, outcome |-> "error"])]
    /\ UNCHANGED <<pools, now, ret, calls, fs>>

\* agent.act raised: mark_failed, the audit entry, break
AgentRaises ==
    /\ run.pc = "act"
    /\ graph' = mark_failed(graph, run.task.task)
    /\ run' = [run EXCEPT !.pc = "report",
                          !.audit_log = Append(@, [task |-> run.task.task, outcome |-> "error"])]
    /\ UNCHANGED <<pools, now, ret, calls, fs>>

\* the status table reads data["payload"] of every node, then the log is saved
RunReports ==
    /\ run.pc = "report"
    /\ run' = IF \E i \in 1..Len(graph.nodes) : "payload" \notin DOMAIN graph.data[graph.nodes[i]]
              THEN [run EXCEPT !.pc = "raised"] @@ [error |-> "KeyError"]
              ELSE [run EXCEPT !.pc = "done"]
    /\ UNCHANGED <<pools, now, ret, calls, graph, fs>>

InitRun ==
    /\ pools = [p \in Providers |-> APIKeyPool]
    /\ now = 0
    /\ ret = NoReturn
    /\ calls = [c \in CallIds |-> Idle]
    /\ graph = EmptyGraph
    /\ fs = NoFiles
    /\ run = [pc |-> "start"]

NextRun ==
    \/ \E plan \in Plans, max_steps \in 0..MaxSteps : RunLoadsPlan(plan, max_steps)
    \/ RunPicksTask
    \/ AgentReturns
    \/ AgentRaises
    \/ RunReports

\* one execution of run
SpecRun == InitRun /\ [][NextRun]_vars

\* one execution of run that is not left waiting: the event loop runs the
\* coroutine on, and every agent.act it awaits returns or raises
SpecRunFair == InitRun /\ [][NextRun]_vars /\ WF_vars(NextRun)

-----------------------------------------------------------------------------
(* ParallelLLMManager._compute_timeout *)

\* manager = ParallelLLMManager(settings)
NewManager(timeout_seconds) ==
    /\ run.pc = "new"
    /\ run' = [pc |-> "manager", request_timeout_seconds |-> timeout_seconds]
    /\ UNCHANGED <<pools, now, ret, calls, graph, fs>>

\* manager._compute_timeout(max_tokens); ret.prev is the call before this one
\* (history, read by no action)
ComputeTimeout(max_tokens) ==
    /\ run.pc = "manager"
    /\ ret' = [op |-> "_compute_timeout", max_tokens |-> max_tokens,
               value |-> compute_timeout(run.request_timeout_seconds, max_tokens),
               prev |-> IF ret.op = "_compute_timeout"
                        THEN [max_tokens |-> ret.max_tokens, value |-> ret.value]
                        ELSE None]
    /\ UNCHANGED <<pools, now, calls, graph, run, fs>>

NextTimeout ==
    \/ \E timeout_seconds \in TimeoutSettings : NewManager(timeout_seconds)
    \* max_tokens (an Optional[int] is None or [int |-> n]): None, zero, a
    \* negative value, and values below, at and above both clamp limits
    \/ \E max_tokens \in {None} \cup { [int |-> n] : n \in {-1, 0, 1, 1999, 2000, 2001, 4000,
                                                            9999, 10000, 10001, 20000} } :
            ComputeTimeout(max_tokens)

\* one manager asked for timeouts
SpecTimeout == InitPool /\ [][NextTimeout]_vars

-----------------------------------------------------------------------------
(* LLMClient (src/core/llm_client.py): the rate limiter of chat. Times are in
   seconds; run.sent (history, read by no action) lists the times at which
   _check_rate_limit returned and the request went out *)

MaxChats == 5       \* chat calls on one client

Window == 60

\* LLMClient._check_rate_limit at time t: the list kept afterwards and the time
\* slept
check_rate_limit(request_times, t, max_requests_per_minute) ==
    LET kept == SelectSeq(request_times, LAMBDA x : t - x < Window)
        sleep_time == Window - (t - kept[1])
    IN  IF Len(kept) >= max_requests_per_minute /\ sleep_time > 0
        THEN [request_times |-> <<t>>, slept |-> sleep_time]
        ELSE [request_times |-> Append(kept, t), slept |-> 0]

\* client = LLMClient(settings), settings.max_requests_per_minute given
NewClient(max_requests_per_minute) ==
    /\ run.pc = "new"
    /\ run' = [pc |-> "client", max_requests_per_minute |-> max_requests_per_minute,
               request_times |-> <<>>, sent |-> <<>>]
    /\ UNCHANGED <<pools, now, ret, calls, graph, fs>>

\* client.chat(messages), called gap seconds after the call before it
\* returned: _check_rate_limit, which may sleep, then the request
Chat(gap) ==
    /\ run.pc = "client"
    /\ Len(run.sent) < MaxChats
    /\ LET t == now + gap
           r == check_rate_limit(run.request_times, t, run.max_requests_per_minute)
       IN  /\ now' = t + r.slept
           /\ run' = [run EXCEPT !.request_times = r.request_times,
                                 !.sent = Append(@, t + r.slept)]
           /\ ret' = [op |-> "chat", slept |-> r.slept]
    /\ UNCHANGED <<pools, calls, graph, fs>>

NextLimiter ==
    \/ \E max_requests_per_minute \in 1..3 : NewClient(max_requests_per_minute)
    \/ \E gap \in {0, 1, 30, 59, 60} : Chat(gap)

\* one client asked to chat again and again
SpecLimiter == InitPool /\ [][NextLimiter]_vars

-----------------------------------------------------------------------------
(* File operations (src/tools/fileio.py) *)

MaxContent == 1     \* chunks of text in one file

\* A path is its list of components (each a text) and whether it is absolute;
\* a resolved path is the list of components below the root. The file system
\* has no symbolic links.
RelPath(parts) == [absolute |-> FALSE, parts |-> parts]

AbsPath(parts) == [absolute |-> TRUE, parts |-> parts]

\* os.getcwd()
Cwd == << <<"b">> >>

\* the components of the path with "." and ".." worked off, left to right
RECURSIVE normalise(_, _)
normalise(parts, done) ==
    IF parts = <<>> THEN done
    ELSE IF Head(parts) = <<".">> THEN normalise(Tail(parts), done)
    ELSE IF Head(parts) = <<".", ".">>
         THEN normalise(Tail(parts),
                        IF done = <<>> THEN done ELSE SubSeq(done, 1, Len(done) - 1))
    ELSE normalise(Tail(parts), Append(done, Head(parts)))

\* Path(path).resolve()
resolve(path) == normalise((IF path.absolute THEN <<>> ELSE Cwd) \o path.parts, <<>>)

\* str(resolved_path): "/" for the root, "/a/b" below it
RECURSIVE path_str(_)
path_str(resolved) ==
    IF resolved = <<>> THEN <<"/">>
    ELSE IF Len(resolved) = 1 THEN <<"/">> \o resolved[1]
    ELSE <<"/">> \o resolved[1] \o path_str(Tail(resolved))

FileOperationError == [raise |-> "FileOperationError"]

\* _safe_path: the resolved path, or FileOperationError
safe_path(path, base_dir) ==
    IF base_dir # None /\
       ~startswith(path_str(resolve(path)), path_str(resolve(base_dir.path)))
    THEN FileOperationError
    ELSE [value |-> resolve(path)]

(* pathlib on the modelled file system: fs.dirs is the set of directories
   (the root is always one), fs.files the set of files with their content *)

is_dir(f, p) == p = <<>> \/ p \in f.dirs

is_file(f, p) == \E e \in f.files : e.path = p

exists(f, p) == is_dir(f, p) \/ is_file(f, p)

parent(p) == IF p = <<>> THEN p ELSE SubSeq(p, 1, Len(p) - 1)

Prefixes(p) == { SubSeq(p, 1, k) : k \in 1..Len(p) }

\* Path.mkdir(parents=True, exist_ok=True): the file system after it, or the
\* error of a file standing where a directory is needed
mkdir(f, p) ==
    IF \E q \in Prefixes(p) : is_file(f, q) THEN FileOperationError
    ELSE [value |-> [f EXCEPT !.dirs = @ \cup Prefixes(p)]]

\* the content of the file p
content_of(f, p) == (CHOOSE e \in f.files : e.path = p).content

\* Path.write_text / open(path, "a").write: the file system after it, or the
\* error of writing to a directory or below a missing one
write_text(f, p, content) ==
    IF is_dir(f, p) \/ ~is_dir(f, parent(p)) THEN FileOperationError
    ELSE [value |-> [f EXCEPT !.files =
                { e \in @ : e.path # p } \cup {[path |-> p, content |-> content]}]]

Success == [value |-> "success"]

\* each operation gives the file system after it and what it returns or raises

create_file(f, filepath, content, overwrite, base_dir) ==
    LET path == safe_path(filepath, base_dir)
    IN  IF Raises(path) THEN [fs |-> f, result |-> FileOperationError]
        ELSE IF exists(f, path.value) /\ ~overwrite
        THEN [fs |-> f, result |-> FileOperationError]
        ELSE LET made == mkdir(f, parent(path.value))
             IN  IF Raises(made) THEN [fs |-> f, result |-> FileOperationError]
                 ELSE LET written == write_text(made.value, path.value, content)
                      IN  IF Raises(written)
                          THEN [fs |-> made.value, result |-> FileOperationError]
                          ELSE [fs |-> written.value, result |-> Success]

read_file(f, filepath, base_dir) ==
    LET path == safe_path(filepath, base_dir)
    IN  IF Raises(path) THEN [fs |-> f, result |-> FileOperationError]
        ELSE IF ~exists(f, path.value) \/ ~is_file(f, path.value)
        THEN [fs |-> f, result |-> FileOperationError]
        ELSE [fs |-> f, result |-> [value |-> content_of(f, path.value)]]

write_file(f, filepath, content, append, base_dir) ==
    LET path == safe_path(filepath, base_dir)
    IN  IF Raises(path) THEN [fs |-> f, result |-> FileOperationError]
        ELSE LET made == mkdir(f, parent(path.value))
             IN  IF Raises(made) THEN [fs |-> f, result |-> FileOperationError]
                 ELSE LET old == IF append /\ is_file(made.value, path.value)
                                 THEN content_of(made.value, path.value) ELSE <<>>
                          written == write_text(made.value, path.value, old \o content)
                      IN  IF Raises(written)
                          THEN [fs |-> made.value, result |-> FileOperationError]
                          ELSE [fs |-> written.value, result |-> Success]

delete_file(f, filepath, base_dir) ==
    LET path == safe_path(filepath, base_dir)
    IN  IF Raises(path) THEN [fs |-> f, result |-> FileOperationError]
        ELSE IF ~exists(f, path.value) \/ ~is_file(f, path.value)
        THEN [fs |-> f, result |-> FileOperationError]
        ELSE [fs |-> [f EXCEPT !.files = { e \in @ : e.path # path.value }],
              result |-> Success]

\* list_directory with pattern "*": the files of the directory, or with
\* recursive=True those anywhere below it (as a set: the list is sorted)
list_directory(f, dirpath, recursive, base_dir) ==
    LET path == safe_path(dirpath, base_dir)
    IN  IF Raises(path) THEN [fs |-> f, result |-> FileOperationError]
        ELSE IF ~exists(f, path.value) \/ ~is_dir(f, path.value)
        THEN [fs |-> f, result |-> FileOperationError]
        ELSE [fs |-> f,
              result |-> [value |->
                { e.path : e \in { d \in f.files :
                    /\ Len(d.path) > Len(path.value)
                    /\ SubSeq(d.path, 1, Len(path.value)) = path.value
                    /\ recursive \/ Len(d.path) = Len(path.value) + 1 } }]]

\* create_directory with parents=True and exist_ok=True
create_directory(f, dirpath, base_dir) ==
    LET path == safe_path(dirpath, base_dir)
    IN  IF Raises(path) THEN [fs |-> f, result |-> FileOperationError]
        ELSE LET made == mkdir(f, path.value)
             IN  IF Raises(made) THEN [fs |-> f, result |-> FileOperationError]
                 ELSE [fs |-> made.value, result |-> Success]

(* The file operations called on a small tree: /b (the base directory and the
   working directory) with the file x, its sibling /b2 with x, and /o with x *)

PathArgs ==
    { RelPath(<< <<"x">> >>),                                   \* /b/x
      RelPath(<< <<"n">>, <<"y">> >>),                          \* /b/n/y
      RelPath(<< <<".">> >>),                                   \* /b
      RelPath(<< <<".", ".">>, <<"b", "2">>, <<"x">> >>),       \* /b2/x
      AbsPath(<< <<"b", "2">> >>),                              \* /b2
      RelPath(<< <<".", ".">>, <<".", ".">>, <<"o">>, <<"x">> >>) }  \* /o/x

\* base_dir: Optional[str], None or [path |-> the directory]; the operations
\* are called with the base directory /b
BaseDirs == { [path |-> AbsPath(<< <<"b">> >>)] }

InitialFiles ==
    [dirs |-> { << <<"b">> >>, << <<"b", "2">> >>, << <<"o">> >> },
     files |-> { [path |-> << <<"b">>, <<"x">> >>, content |-> <<"old">>],
                 [path |-> << <<"b", "2">>, <<"x">> >>, content |-> <<"old">>],
                 [path |-> << <<"o">>, <<"x">> >>, content |-> <<"old">>] }]

\* the call recorded in ret: its arguments and what it returned or raised
Returned(op, path, base_dir, out) ==
    [op |-> op, path |-> path, base_dir |-> base_dir] @@ out.result

CreateFile(filepath, content, overwrite, base_dir) ==
    LET out == create_file(fs, filepath, content, overwrite, base_dir)
    IN  /\ run.pc = "files"
        /\ fs' = out.fs
        /\ ret' = Returned("create_file", filepath, base_dir, out)
        /\ UNCHANGED <<pools, now, calls, graph, run>>

ReadFile(filepath, base_dir) ==
    LET out == read_file(fs, filepath, base_dir)
    IN  /\ run.pc = "files"
        /\ fs' = out.fs
        /\ ret' = Returned("read_file", filepath, base_dir, out)
        /\ UNCHANGED <<pools, now, calls, graph, run>>

WriteFile(filepath, content, append, base_dir) ==
    LET out == write_file(fs, filepath, content, append, base_dir)
    IN  /\ run.pc = "files"
        /\ \A e \in out.fs.files : Len(e.content) <= MaxContent
        /\ fs' = out.fs
        /\ ret' = Returned("write_file", filepath, base_dir, out)
        /\ UNCHANGED <<pools, now, calls, graph, run>>

DeleteFile(filepath, base_dir) ==
    LET out == delete_file(fs, filepath, base_dir)
    IN  /\ run.pc = "files"
        /\ fs' = out.fs
        /\ ret' = Returned("delete_file", filepath, base_dir, out)
        /\ UNCHANGED <<pools, now, calls, graph, run>>

ListDirectory(dirpath, recursive, base_dir) ==
    LET out == list_directory(fs, dirpath, recursive, base_dir)
    IN  /\ run.pc = "files"
        /\ fs' = out.fs
        /\ ret' = Returned("list_directory", dirpath, base_dir, out)
        /\ UNCHANGED <<pools, now, calls, graph, run>>

CreateDirectory(dirpath, base_dir) ==
    LET out == create_directory(fs, dirpath, base_dir)
    IN  /\ run.pc = "files"
        /\ fs' = out.fs
        /\ ret' = Returned("create_directory", dirpath, base_dir, out)
        /\ UNCHANGED <<pools, now, calls, graph, run>>

InitFiles ==
    /\ pools = [p \in Providers |-> APIKeyPool]
    /\ now = 0
    /\ ret = NoReturn
    /\ calls = [c \in CallIds |-> Idle]
    /\ graph = EmptyGraph
    /\ run = [pc |-> "files"]
    /\ fs = InitialFiles

NextFiles ==
    \/ \E filepath \in PathArgs, content \in { <<"new">> }, overwrite \in BOOLEAN,
          base_dir \in BaseDirs : CreateFile(filepath, content, overwrite, base_dir)
    \/ \E filepath \in PathArgs, base_dir \in BaseDirs : ReadFile(filepath, base_dir)
    \/ \E filepath \in PathArgs, content \in { <<"new">> }, append \in BOOLEAN,
          base_dir \in BaseDirs : WriteFile(filepath, content, append, base_dir)
    \/ \E filepath \in PathArgs, base_dir \in BaseDirs : DeleteFile(filepath, base_dir)
    \/ \E dirpath \in PathArgs, recursive \in BOOLEAN, base_dir \in BaseDirs :
            ListDirectory(dirpath, recursive, base_dir)
    \/ \E dirpath \in PathArgs, base_dir \in BaseDirs : CreateDirectory(dirpath, base_dir)

\* the file operations called in any order
SpecFiles == InitFiles /\ [][NextFiles]_vars

-----------------------------------------------------------------------------
(* Properties of the key pool and the gateway *)

Settled(call) ==
    /\ call.pc \in {"returned", "raised"}
    /\ call.results # <<>>

IsError(r) == "error" \in DOMAIN r

IsSuccess(r) == {"content", "model", "usage", "finish_reason"} \subseteq DOMAIN r /\ ~IsError(r)

AllFailed == "All parallel API calls failed"

NoActiveKeys == "No active API keys available"

\* C1: call_parallel never returns an empty list; when every attempt it issued
\* ended in an error (a timeout or any other failure) it has raised the
\* 'All parallel API calls failed' error.
C1_NeverReturnsEmpty ==
    \A c \in CallIds :
        /\ calls[c].pc = "returned" => calls[c].value # <<>>
        /\ (Settled(calls[c]) /\ \A i \in 1..Len(calls[c].results) : IsError(calls[c].results[i]))
                => (calls[c].pc = "raised" /\ calls[c].error = AllFailed)

\* three attempts failed, by a timeout, an exception and a malformed reply, and
\* the call raised
C1_Witness ==
    \E c \in CallIds :
        /\ calls[c].pc = "raised" /\ calls[c].error = AllFailed
        /\ Len(calls[c].results) = 3
        /\ calls[c].results[1] = [error |-> "timeout"]
        /\ calls[c].results[2] = [error |-> "exception"]
        /\ calls[c].results[3] = [error |-> "list index out of range"]

\* C2: when k of the N attempts succeed, call_parallel returns exactly k
\* results, each success-shaped, and the j-th returned result is the result of
\* the j-th successful attempt in issue order.
C2_SuccessesInIssueOrder ==
    \A c \in CallIds :
        calls[c].pc = "returned" =>
            LET results == calls[c].results
                value == calls[c].value
                good == { i \in 1..Len(results) : ~IsError(results[i]) }
            IN  /\ Len(value) = Cardinality(good)
                /\ \A j \in 1..Len(value) : IsSuccess(value[j])
                /\ \E f \in [1..Len(value) -> good] :
                        /\ \A a, b \in 1..Len(value) : a < b => f[a] < f[b]
                        /\ \A j \in 1..Len(value) : value[j] = results[f[j]]

\* of three attempts the second failed; the two survivors differ and are
\* returned first attempt first
C2_Witness ==
    \E c \in CallIds :
        /\ calls[c].pc = "returned"
        /\ Len(calls[c].results) = 3
        /\ IsError(calls[c].results[2])
        /\ Len(calls[c].value) = 2
        /\ calls[c].value[1].content = [str |-> <<"b">>]
        /\ calls[c].value[2].content = [str |-> <<"a">>]

\* C3: the mark_error that brings errors to 3 sets is_active to false, and no
\* operation makes an inactive record active again.
C3_EvictedForGood ==
    [][\A p \in Providers : \A i \in 1..Len(pools[p].keys) :
            /\ (pools[p].keys[i].errors = 2 /\ pools'[p].keys[i].errors = 3)
                    => ~pools'[p].keys[i].is_active
            /\ ~pools[p].keys[i].is_active => ~pools'[p].keys[i].is_active]_vars

\* an evicted record has since been marked as used and as failed once more,
\* and a selector has run
C3_Witness ==
    \E p \in Providers : \E i \in 1..Len(pools[p].keys) :
        /\ pools[p].keys[i].errors = 4
        /\ ~pools[p].keys[i].is_active
        /\ pools[p].keys[i].calls_count >= 1
        /\ pools[p].keys[i].last_used = 1
        /\ pools[p].round_robin_index >= 1
        /\ ret.op = "get_keys_for_parallel"

\* C4: the three selectors return only active records, and None, None and the
\* empty list when no record is active.
C4_SelectorsReturnActive ==
    LET keys == IF "pool" \in DOMAIN ret THEN pools[ret.pool].keys ELSE <<>>
        none == \A i \in 1..Len(keys) : ~keys[i].is_active
    IN  /\ ret.op \in {"get_next_key", "get_least_used_key"} =>
                IF none THEN ret.value = None
                ELSE /\ ret.value # None
                     /\ ret.value.key \in 1..Len(keys)
                     /\ keys[ret.value.key].is_active
        /\ ret.op = "get_keys_for_parallel" =>
                IF none THEN ret.value = <<>>
                ELSE \A j \in 1..Len(ret.value) :
                        /\ ret.value[j] \in 1..Len(keys)
                        /\ keys[ret.value[j]].is_active

\* the evicted first record was used less than the second, and
\* get_least_used_key returned the second
C4_Witness ==
    /\ ret.op = "get_least_used_key"
    /\ Len(pools[ret.pool].keys) = 2
    /\ ~pools[ret.pool].keys[1].is_active
    /\ pools[ret.pool].keys[1].calls_count < pools[ret.pool].keys[2].calls_count
    /\ ret.value = [key |-> 2]

\* C5: with active records a_0..a_(m-1) in pool order, m >= 1,
\* get_keys_for_parallel(n) returns n records (so at most n), the i-th being
\* a_(i mod m); 2 active records and n = 4 give [r1, r2, r1, r2], and with r1
\* evicted n = 3 gives [r2, r2, r2].
C5_CyclesOverActive ==
    ret.op = "get_keys_for_parallel" =>
        LET keys == pools[ret.pool].keys
            act == { i \in 1..Len(keys) : keys[i].is_active }
            m == Cardinality(act)
            \* a(r): the active record with r active records before it
            a(r) == CHOOSE e \in act : Cardinality({ x \in act : x < e }) = r
        IN  m >= 1 =>
                /\ Len(ret.value) = ret.count
                /\ \A i \in 0..(ret.count - 1) : ret.value[i + 1] = a(i % m)
                /\ (Len(keys) = 2 /\ m = 2 /\ ret.count = 4) => ret.value = <<1, 2, 1, 2>>
                /\ (Len(keys) = 2 /\ act = {2} /\ ret.count = 3) => ret.value = <<2, 2, 2>>

\* r1 of a 2-record pool is evicted and get_keys_for_parallel(3) has returned
C5_Witness ==
    /\ ret.op = "get_keys_for_parallel"
    /\ ret.count = 3
    /\ Len(pools[ret.pool].keys) = 2
    /\ pools[ret.pool].keys[1].errors = 3
    /\ ~pools[ret.pool].keys[1].is_active
    /\ pools[ret.pool].keys[2].is_active
    /\ ret.value = <<2, 2, 2>>

\* C6: a call_parallel invoked while the pool selected for its provider has no
\* active record raises the 'no active keys' error with no attempt issued, and
\* leaves every record of every pool unchanged.
C6_NoActiveKeysRaises ==
    [][\A c \in CallIds :
            LET p == IF calls'[c].provider = "openai" THEN "openai" ELSE "qwen"
            IN  (/\ calls'[c].seq = calls[c].seq + 1
                 /\ \A i \in 1..Len(pools[p].keys) : ~pools[p].keys[i].is_active)
                => /\ calls'[c].pc = "raised"
                   /\ calls'[c].error = NoActiveKeys
                   /\ calls'[c].results = <<>>
                   /\ pools' = pools]_vars

\* the first call_parallel evicted the only record of the qwen pool and the
\* second found no active record there
C6_Witness ==
    \E c \in CallIds :
        /\ calls[c].pc = "raised" /\ calls[c].error = NoActiveKeys
        /\ calls[c].seq = 2
        /\ calls[c].provider = "qwen"
        /\ Len(pools["qwen"].keys) = 1
        /\ pools["qwen"].keys[1].errors = 3
        /\ ~pools["qwen"].keys[1].is_active
        /\ \E i \in 1..Len(pools["openai"].keys) : pools["openai"].keys[i].is_active

AllTimedOut(call) ==
    /\ Settled(call)
    /\ \A i \in 1..Len(call.results) : call.results[i] = [error |-> "timeout"]

\* the attempts of the call that were given record k of its pool
AttemptsOn(call, k) == { i \in 1..Len(call.keys) : call.keys[i] = k }

\* mark_error calls on record k since the call was dispatched
NewErrors(call, k) == pools[call.pool].keys[k].errors - call.errors0[k]

\* C7 as stated: when all N attempts time out the all-calls-failed error is
\* raised and every credential assigned to the call has had mark_error invoked
\* exactly once by it.
C7_OneMarkErrorPerKey ==
    \A c \in CallIds :
        AllTimedOut(calls[c]) =>
            /\ calls[c].pc = "raised" /\ calls[c].error = AllFailed
            /\ \A k \in 1..Len(pools[calls[c].pool].keys) :
                    AttemptsOn(calls[c], k) # {} => NewErrors(calls[c], k) = 1

\* C7 amended: when all N attempts time out the all-calls-failed error is
\* raised and every credential has had mark_error invoked once per attempt
\* assigned to it: once when it was drawn once, j times when the cycling
\* assignment drew it j times, not at all when it was not drawn.
C7_OneMarkErrorPerAttempt ==
    \A c \in CallIds :
        AllTimedOut(calls[c]) =>
            /\ calls[c].pc = "raised" /\ calls[c].error = AllFailed
            /\ \A k \in 1..Len(pools[calls[c].pool].keys) :
                    NewErrors(calls[c], k) = Cardinality(AttemptsOn(calls[c], k))

\* three attempts over two active records timed out: two marks on the first
\* record, one on the second
C7_Witness ==
    \E c \in CallIds :
        /\ AllTimedOut(calls[c])
        /\ calls[c].keys = <<1, 2, 1>>
        /\ NewErrors(calls[c], 1) = 2
        /\ NewErrors(calls[c], 2) = 1

-----------------------------------------------------------------------------
(* Properties of the task graph, the scheduler and the run loop *)

Nodes(g) == { g.nodes[i] : i \in 1..Len(g.nodes) }

Edges(g) == { g.edges[i] : i \in 1..Len(g.edges) }

Complete(g) == \A n \in Nodes(g) : "payload" \in DOMAIN g.data[n]

Status(g, n) == g.data[n].payload.status

DirectPreds(g, n) == { e[1] : e \in { d \in Edges(g) : d[2] = n } }

\* the nodes that are PENDING and whose every direct predecessor is DONE
ReadySet(g) ==
    { n \in Nodes(g) : /\ Status(g, n) = PENDING
                       /\ \A q \in DirectPreds(g, n) : Status(g, q) = DONE }

\* the graph of the plan A (no deps), B (dep A), C (deps A, B)
IsChainABC(g) ==
    /\ g.nodes = <<"A", "B", "C">>
    /\ Edges(g) = { <<"A", "B">>, <<"A", "C">>, <<"B", "C">> }
    /\ Complete(g)

\* C8: in a graph whose nodes all carry a task, get_ready_tasks returns exactly
\* the nodes that are PENDING and whose every direct predecessor is DONE, each
\* once; for A, B (dep A), C (deps A, B) that is [A], then [B] once A is DONE,
\* then [C] once B is DONE too.
C8_ReadyExactly ==
    (ret.op = "get_ready_tasks" /\ Complete(graph)) =>
        /\ ~Raises(ret)
        /\ { ret.value[j] : j \in 1..Len(ret.value) } = ReadySet(graph)
        /\ Len(ret.value) = Cardinality(ReadySet(graph))
        /\ \A j \in 1..Len(ret.value) : \A q \in DirectPreds(graph, ret.value[j]) :
                Status(graph, q) \notin {PENDING, RUNNING, FAILED}
        /\ IsChainABC(graph) =>
            LET st == [n \in Nodes(graph) |-> Status(graph, n)]
            IN  /\ st = [A |-> PENDING, B |-> PENDING, C |-> PENDING] => ret.value = <<"A">>
                /\ st = [A |-> DONE, B |-> PENDING, C |-> PENDING] => ret.value = <<"B">>
                /\ st = [A |-> DONE, B |-> DONE, C |-> PENDING] => ret.value = <<"C">>

\* A and B of the chain are DONE and get_ready_tasks returned [C]
C8_Witness ==
    /\ ret.op = "get_ready_tasks"
    /\ IsChainABC(graph)
    /\ Status(graph, "A") = DONE /\ Status(graph, "B") = DONE
    /\ ret.value = <<"C">>

\* a path of at most k edges from u to v
RECURSIVE Path(_, _, _, _)
Path(g, u, v, k) ==
    /\ k > 0
    /\ \/ <<u, v>> \in Edges(g)
       \/ \E e \in Edges(g) : e[1] = u /\ Path(g, e[2], v, k - 1)

HasCycle(g) == \E n \in Nodes(g) : Path(g, n, n, Len(g.nodes))

\* C9: a plan whose dependency edges contain a cycle is rejected with a cycle
\* error when it is loaded: get_ready_tasks is never called on it and none of
\* its tasks is given to an agent.
C9_CyclicPlanRejected ==
    (run.pc # "start" /\ HasCycle(graph)) =>
        /\ run.pc = "raised"
        /\ ~run.ready_called
        /\ run.handed = <<>>

\* C10: once the status of a node is DONE or FAILED no scheduler operation
\* changes it, so a node with a FAILED predecessor is not ready afterwards.
C10_TerminalStates ==
    [][\A n \in Nodes(graph) :
            ("payload" \in DOMAIN graph.data[n] /\ Status(graph, n) \in {DONE, FAILED})
                => /\ Status(graph', n) = Status(graph, n)
                   /\ (Complete(graph') /\ Status(graph, n) = FAILED)
                        => \A m \in ReadySet(graph') : n \notin DirectPreds(graph', m)]_vars

\* C11: all_done (TaskScheduler.finished) returns true exactly when every node
\* has status DONE; in a graph whose nodes all carry a task it returns false
\* whenever some node is PENDING, RUNNING or FAILED, also when the nodes left
\* are blocked for good behind a FAILED predecessor.
C11_AllDoneIffEveryNodeDone ==
    ret.op = "finished" =>
        /\ (~Raises(ret) /\ ret.value)
                <=> (Complete(graph) /\ \A n \in Nodes(graph) : Status(graph, n) = DONE)
        /\ Complete(graph) =>
                /\ ~Raises(ret)
                /\ (\E n \in Nodes(graph) : Status(graph, n) \in {PENDING, RUNNING, FAILED})
                        => ret.value = FALSE

\* A has FAILED, B and C wait behind it with nothing ready, and finished
\* returned false
C11_Witness ==
    /\ ret.op = "finished"
    /\ IsChainABC(graph)
    /\ Status(graph, "A") = FAILED
    /\ Status(graph, "B") = PENDING /\ Status(graph, "C") = PENDING
    /\ ReadySet(graph) = {}
    /\ ret.value = FALSE

\* C12: the timeout computed by _compute_timeout is non-decreasing in
\* max_tokens and, for every max_tokens (None, 0 and negative values too), lies
\* between base_timeout and 5 x base_timeout.
C12_TimeoutMonotoneAndBounded ==
    ret.op = "_compute_timeout" =>
        LET base == base_timeout(run.request_timeout_seconds)
        IN  /\ base * TokensPerUnit <= ret.value
            /\ ret.value <= 5 * base * TokensPerUnit
            /\ (ret.prev # None /\ ret.prev.max_tokens # None /\ ret.max_tokens # None)
                    => /\ ret.prev.max_tokens.int <= ret.max_tokens.int
                            => ret.prev.value <= ret.value
                       /\ ret.max_tokens.int <= ret.prev.max_tokens.int
                            => ret.value <= ret.prev.value

\* 4000 tokens gave twice the base of 60 s, and 20000 tokens after it gave five
\* times the base
C12_Witness ==
    /\ ret.op = "_compute_timeout"
    /\ run.request_timeout_seconds = 60
    /\ ret.prev = [max_tokens |-> [int |-> 4000], value |-> 120 * TokensPerUnit]
    /\ ret.max_tokens = [int |-> 20000]
    /\ ret.value = 300 * TokensPerUnit

-----------------------------------------------------------------------------
(* Properties of the attempts and of the protocol adapter *)

\* the reply is a timeout, an exception of the client, or a response that
\* cannot be read (no choices; a message block without content)
FailedReply(reply) ==
    \/ reply.kind \in {"timeout", "exception"}
    \/ reply.kind = "response" /\ reply.api = "chat" /\ reply.choices = 0
    \/ /\ reply.kind = "response" /\ reply.api = "responses"
       /\ reply.output # None
       /\ \E j \in 1..Len(reply.output.list) :
                reply.output.list[j].type = "message" /\ reply.output.list[j].content = None

\* attempt i of call c settles in this step
Settles(c, i) ==
    /\ calls[c].pc = "gather"
    /\ i \in 1..Len(calls[c].results)
    /\ calls[c].results[i] = Pending
    /\ calls'[c].results[i] # Pending

KeyOf(call, i) == pools[call.pool].keys[call.keys[i]]

\* C13: the only errors call_parallel raises are the no-active-keys error and
\* the all-calls-failed error; an attempt that fails (timeout, exception of the
\* client, malformed reply) does not end the call: it stores an error-shaped
\* result and has invoked mark_error on its key.
C13_AttemptFailuresAbsorbed ==
    [][\A c \in CallIds :
            /\ calls'[c].pc = "raised" => calls'[c].error \in {NoActiveKeys, AllFailed}
            /\ \A i \in 1..MaxFanOut :
                    (Settles(c, i) /\ FailedReply(calls'[c].replies[i]))
                        => /\ calls'[c].pc = "gather"
                           /\ DOMAIN calls'[c].results[i] = {"error"}
                           /\ pools'[calls[c].pool].keys[calls[c].keys[i]].errors
                                    = KeyOf(calls[c], i).errors + 1]_vars

\* a timeout and a reply without choices were absorbed, and the call returned
\* the one success
C13_Witness ==
    \E c \in CallIds :
        /\ calls[c].pc = "returned"
        /\ Len(calls[c].results) = 3
        /\ calls[c].replies[1].kind = "timeout"
        /\ calls[c].replies[2] = ChatResponse(0, None)
        /\ calls[c].results[1] = [error |-> "timeout"]
        /\ IsError(calls[c].results[2])
        /\ calls[c].value = <<calls[c].results[3]>>

\* C14: call_parallel returns or raises only when all its N attempts have
\* settled: after the failure of one attempt the call stays at the gather
\* while a sibling attempt is in flight.
C14_WaitsForAllAttempts ==
    [][\A c \in CallIds :
            (calls'[c].pc \in {"returned", "raised"} /\ calls'[c].keys # <<>>) =>
                /\ Len(calls'[c].results) = Len(calls'[c].keys)
                /\ \A i \in 1..Len(calls'[c].results) : calls'[c].results[i] # Pending
                /\ calls[c].pc = "gather" =>
                        \A i \in 1..Len(calls[c].results) : calls[c].results[i] # Pending]_vars

\* the first attempt has timed out and the third has succeeded; the call is
\* still at the gather with the second in flight
C14_Witness ==
    \E c \in CallIds :
        /\ calls[c].pc = "gather"
        /\ Len(calls[c].results) = 3
        /\ calls[c].results[1] = [error |-> "timeout"]
        /\ calls[c].results[2] = Pending
        /\ IsSuccess(calls[c].results[3])

SuccessFields == {"content", "model", "usage", "finish_reason"}

\* C15: every result of an attempt is either a success (content, model, usage
\* and finish_reason, no error marker) or a failure (the error marker alone),
\* never both and never neither; call_parallel returns results of the first
\* kind only.
C15_SuccessOrFailure ==
    \A c \in CallIds :
        /\ calls[c].pc # "idle" =>
                \A i \in 1..Len(calls[c].results) :
                    calls[c].results[i] # Pending =>
                        \/ DOMAIN calls[c].results[i] = SuccessFields
                        \/ DOMAIN calls[c].results[i] = {"error"}
        /\ calls[c].pc = "returned" =>
                \A j \in 1..Len(calls[c].value) : DOMAIN calls[c].value[j] = SuccessFields

\* a Responses API call of two attempts: one reply could not be read, the
\* other carried text, and the call returned the one success
C15_Witness ==
    \E c \in CallIds :
        /\ calls[c].pc = "returned"
        /\ calls[c].request.api = "responses"
        /\ calls[c].results[1] = [error |-> "TypeError"]
        /\ IsSuccess(calls[c].results[2])
        /\ calls[c].results[2].content = [str |-> <<"a", "b">>]
        /\ calls[c].value = <<calls[c].results[2]>>

\* the reply is a response without a text fragment: a chat message whose body
\* is null or empty, or a Responses API output with no output_text fragment
\* under any message block
NoTextReply(reply) ==
    /\ reply.kind = "response"
    /\ ~FailedReply(reply)
    /\ IF reply.api = "chat"
       THEN reply.content = None \/ reply.content.str = <<>>
       ELSE \/ reply.output = None
            \/ \A j \in 1..Len(reply.output.list) :
                    reply.output.list[j].type = "message" =>
                        \A l \in 1..Len(reply.output.list[j].content.list) :
                            reply.output.list[j].content.list[l].type # "output_text"

\* C16: an attempt whose reply, in either protocol shape, holds no text fragment
\* (Shape B: no output_text fragment under any message block) yields a
\* success-shaped result whose text is the empty string.
C16_NoTextGivesEmptyText ==
    \A c \in CallIds :
        calls[c].pc # "idle" =>
            \A i \in 1..Len(calls[c].results) :
                (calls[c].results[i] # Pending /\ NoTextReply(calls[c].replies[i]))
                    => /\ IsSuccess(calls[c].results[i])
                       /\ calls[c].results[i].content = [str |-> <<>>]

\* a chat response with a message whose body is null or blank
BlankChatReply(reply) ==
    /\ reply.kind = "response" /\ reply.api = "chat" /\ reply.choices > 0
    /\ reply.content = None \/ strip(reply.content.str) = <<>>

\* C17: an attempt whose chat-completions reply has a null or blank message
\* body yields a success-shaped result with the empty string as content, and no
\* result returned by call_parallel carries a null content.
C17_BlankBodyGivesEmptyString ==
    \A c \in CallIds :
        /\ calls[c].pc # "idle" =>
                \A i \in 1..Len(calls[c].results) :
                    (calls[c].results[i] # Pending /\ BlankChatReply(calls[c].replies[i]))
                        => /\ IsSuccess(calls[c].results[i])
                           /\ calls[c].results[i].content = [str |-> <<>>]
        /\ calls[c].pc = "returned" =>
                \A j \in 1..Len(calls[c].value) :
                    /\ calls[c].value[j].content # None
                    /\ DOMAIN calls[c].value[j].content = {"str"}

\* a null body and a blank body both came back as successes with empty content
C17_Witness ==
    \E c \in CallIds :
        /\ calls[c].pc = "returned"
        /\ calls[c].replies = <<ChatResponse(1, None), ChatResponse(1, [str |-> <<" ">>])>>
        /\ Len(calls[c].value) = 2
        /\ calls[c].value[1].content = [str |-> <<>>]
        /\ calls[c].value[2].content = [str |-> <<>>]

\* a call that has issued attempts
Issued(call) == call.pc # "idle" /\ call.request # None

\* C18 as stated: the request of an attempt never carries both a temperature
\* and a reasoning effort, and the model-name pattern alone selects the one
\* that is sent: a reasoning model gets reasoning_effort and never temperature,
\* any other model gets the caller's temperature and never reasoning_effort.
C18_ExactlyOneByModelPattern ==
    \A c \in CallIds :
        Issued(calls[c]) =>
            LET request == calls[c].request
            IN  /\ ~({"temperature", "reasoning_effort"} \subseteq DOMAIN request)
                /\ IF is_reasoning_model(calls[c].model)
                   THEN /\ "reasoning_effort" \in DOMAIN request
                        /\ request.reasoning_effort = calls[c].args.reasoning_effort
                        /\ "temperature" \notin DOMAIN request
                   ELSE /\ "reasoning_effort" \notin DOMAIN request
                        /\ calls[c].args.temperature # None =>
                                /\ "temperature" \in DOMAIN request
                                /\ request.temperature = calls[c].args.temperature.float

\* What the code keeps of it: no request carries both parameters; on the
\* chat-completions path the model-name pattern selects the one sent, and a
\* Responses API request carries neither.
NeverBothParameters ==
    \A c \in CallIds :
        Issued(calls[c]) =>
            LET request == calls[c].request
            IN  /\ ~({"temperature", "reasoning_effort"} \subseteq DOMAIN request)
                /\ request.api = "responses" =>
                        DOMAIN request \cap {"temperature", "reasoning_effort"} = {}
                /\ (request.api = "chat" /\ is_reasoning_model(calls[c].model)) =>
                        /\ "reasoning_effort" \in DOMAIN request
                        /\ "temperature" \notin DOMAIN request
                /\ ~is_reasoning_model(calls[c].model) =>
                        /\ "reasoning_effort" \notin DOMAIN request
                        /\ "temperature" \in DOMAIN request <=> calls[c].args.temperature # None

\* C19: every attempt performs exactly one pool update on its key: mark_used
\* if and only if its result is success-shaped, mark_error if and only if its
\* result is error-shaped; no attempt invokes both.
C19_OnePoolUpdatePerAttempt ==
    \A c \in CallIds :
        calls[c].pc # "idle" =>
            \A i \in 1..Len(calls[c].results) :
                calls[c].results[i] # Pending =>
                    calls[c].updates[i] = IF IsSuccess(calls[c].results[i])
                                          THEN <<"mark_used">> ELSE <<"mark_error">>

-----------------------------------------------------------------------------
(* Properties of the file operations *)

FileOps ==
    {"read_file", "create_file", "write_file", "delete_file", "list_directory",
     "create_directory"}

\* the resolved path is base or lies below it
Within(resolved, base) ==
    Len(base) <= Len(resolved) /\ SubSeq(resolved, 1, Len(base)) = base

\* C20: with base_dir given, every file operation rejects with
\* FileOperationError a path that resolves to a location outside base_dir and
\* changes nothing in the file system.
C20_OutsideBaseDirRejected ==
    [][(/\ ret'.op \in FileOps
        /\ ret' # ret \/ fs' # fs
        /\ ret'.base_dir # None
        /\ ~Within(resolve(ret'.path), resolve(ret'.base_dir.path)))
            => /\ Raises(ret')
               /\ ret'.raise = "FileOperationError"
               /\ fs' = fs]_vars

-----------------------------------------------------------------------------
(* Properties of the attempt timeout *)

Clamp(x, low, high) == IF x < low THEN low ELSE IF x > high THEN high ELSE x

\* C21: for a positive max_tokens the timeout computed for a call is
\* base_timeout x clamp(max_tokens / 2000, 1, 5) (in units of 1/2000 second:
\* base_timeout x clamp(max_tokens, 2000, 10000)), and every attempt of the
\* call waits for its network reply for exactly this long: a reply that takes
\* that long or longer ends the attempt in the timeout error, an earlier one
\* does not.
C21_TimeoutValueAppliedPerAttempt ==
    \A c \in CallIds :
        (calls[c].pc \in {"gather", "returned", "raised"} /\ calls[c].args.max_tokens > 0) =>
            LET call == calls[c]
                expected == run.request_timeout_seconds *
                                Clamp(call.args.max_tokens, 2000, 10000)
            IN  /\ call.adaptive_timeout = expected
                /\ \A i \in 1..Len(call.timeouts) :
                        /\ call.timeouts[i] = expected
                        /\ call.waited[i] # None =>
                                (call.waited[i].int >= expected
                                    <=> call.results[i] = [error |-> "timeout"])

\* 20000 tokens on a base of 60 s: both attempts had 300 s; the first reply
\* took 300 s and the attempt timed out, the second came just before and was
\* returned
C21_Witness ==
    \E c \in CallIds :
        /\ calls[c].pc = "returned"
        /\ run.request_timeout_seconds = 60
        /\ calls[c].args.max_tokens = 20000
        /\ calls[c].timeouts = <<300 * TokensPerUnit, 300 * TokensPerUnit>>
        /\ calls[c].waited = <<[int |-> 300 * TokensPerUnit], [int |-> 300 * TokensPerUnit - 1]>>
        /\ calls[c].results[1] = [error |-> "timeout"]
        /\ IsSuccess(calls[c].results[2])

\* attempt i of call c ends in this step by the expiry of its timeout
TimesOut(c, i) ==
    /\ Settles(c, i)
    /\ calls'[c].waited[i].int >= calls[c].timeouts[i]

\* C22: when the timeout of one attempt expires, that attempt alone ends, in
\* an error-shaped result: the call goes on gathering, every sibling that has
\* not settled stays in flight and every settled one keeps its result; and a
\* sibling that settles, before or after, gets the result its own reply and
\* its own timeout give it.
C22_TimeoutLeavesSiblingsAlone ==
    [][\A c \in CallIds : \A i \in 1..MaxFanOut :
            /\ TimesOut(c, i) =>
                    /\ DOMAIN calls'[c].results[i] = {"error"}
                    /\ calls'[c].pc = "gather"
                    /\ \A j \in (1..Len(calls[c].results)) \ {i} :
                            /\ calls'[c].results[j] = calls[c].results[j]
                            /\ calls'[c].waited[j] = calls[c].waited[j]
                            /\ calls'[c].timeouts[j] = calls[c].timeouts[j]
            /\ Settles(c, i) =>
                    LET latency == calls'[c].waited[i].int
                    IN  IF latency >= calls[c].timeouts[i]
                        THEN calls'[c].results[i] = [error |-> "timeout"]
                        ELSE /\ calls'[c].replies[i].kind # "timeout"
                             /\ calls'[c].results[i] =
                                    single_call(calls[c].request, calls'[c].replies[i]).result]_vars

\* the first attempt timed out on the shared key, the second was answered and
\* is the one result the call returned
C22_Witness ==
    \E c \in CallIds :
        /\ calls[c].pc = "returned"
        /\ Len(calls[c].results) = 2
        /\ calls[c].results[1] = [error |-> "timeout"]
        /\ calls[c].updates = << <<"mark_error">>, <<"mark_used">> >>
        /\ calls[c].value = <<calls[c].results[2]>>
        /\ KeyOf(calls[c], 1).errors = 1
        /\ KeyOf(calls[c], 1).calls_count = 1

-----------------------------------------------------------------------------
(* Properties of the rotation *)

\* C23: get_next_key is a round robin over the active records. With active
\* records a_0..a_(m-1) in pool order, m >= 1, any m calls in a row made while
\* the active set is unchanged return each active record exactly once, each
\* call returning the record that follows the one before it in pool order
\* (a_0 after a_(m-1)); so also for the records that remain after an eviction.
C23_RoundRobinOverActive ==
    \A p \in Providers :
        LET keys == pools[p].keys
            act == { i \in 1..Len(keys) : keys[i].is_active }
            m == Cardinality(act)
            \* rank(e): the number of active records before the active record e
            rank(e) == Cardinality({ x \in act : x < e })
            streak == IF p = "openai" THEN ret.streak ELSE <<>>
        IN  m >= 1 =>
                /\ \A j \in 1..Len(streak) : streak[j] # None /\ streak[j].key \in act
                /\ \A j \in 1..(Len(streak) - 1) :
                        rank(streak[j + 1].key) = (rank(streak[j].key) + 1) % m
                /\ \A k \in 1..(Len(streak) - m + 1) : \A e \in act :
                        Cardinality({ j \in k..(k + m - 1) : streak[j].key = e }) = 1

\* the first record was returned once and then evicted; the three calls made
\* since went round the two records that remain
C23_Witness ==
    /\ Len(pools["openai"].keys) = 3
    /\ ~pools["openai"].keys[1].is_active
    /\ pools["openai"].keys[2].is_active
    /\ pools["openai"].keys[3].is_active
    /\ pools["openai"].round_robin_index = 4
    /\ ret.streak = <<[key |-> 3], [key |-> 2], [key |-> 3]>>

-----------------------------------------------------------------------------
(* Properties of add_key *)

\* the token is empty or holds whitespace only
Blank(key) == \A j \in 1..Len(key) : key[j] \in {" "}

\* what add_key(key) must have done going by the claim, given whether the
\* token counts as comment-like
AddKeyDid(commentlike) ==
    LET p == ret'.pool
    IN  IF Blank(ret'.key) \/ commentlike
        THEN pools' = pools
        ELSE /\ Len(pools'[p].keys) = Len(pools[p].keys) + 1
             /\ SubSeq(pools'[p].keys, 1, Len(pools[p].keys)) = pools[p].keys
             /\ pools'[p].keys[Len(pools'[p].keys)] = 
                    [key |-> strip(ret'.key), provider |-> p, calls_count |-> 0,
                     last_used |-> 0, errors |-> 0, is_active |-> TRUE]
             /\ pools'[p].round_robin_index = pools[p].round_robin_index
             /\ \A q \in Providers \ {p} : pools'[q] = pools[q]

\* C26: add_key appends exactly one record, active and with calls_count and
\* errors zero, for a token that is neither blank nor comment-like, and leaves
\* the pool as it was for a token that is empty, whitespace-only or
\* comment-like, that is, begins with '#' as given or once the whitespace
\* around it is stripped.
C26_AddKeyAppendsOrIgnores ==
    [][(ret'.op = "add_key" /\ (ret' # ret \/ pools' # pools)) =>
            AddKeyDid(\/ startswith(ret'.key, <<"#">>)
                      \/ startswith(strip(ret'.key), <<"#">>))]_vars

\* what the code does: a token counts as comment-like only if it begins with
\* '#' as given
AddKeyTestsGivenText ==
    [][(ret'.op = "add_key" /\ (ret' # ret \/ pools' # pools)) =>
            AddKeyDid(startswith(ret'.key, <<"#">>))]_vars

-----------------------------------------------------------------------------
(* Properties of overlapping calls *)

\* the attempts, of any call, that were given record i of pool p
AttemptsGiven(p, i) ==
    { a \in (DOMAIN calls) \X (1..MaxFanOut) :
        /\ calls[a[1]].pc # "idle"
        /\ calls[a[1]].pool = p
        /\ a[2] \in 1..Len(calls[a[1]].results)
        /\ calls[a[1]].keys[a[2]] = i }

\* C25: however the attempts of one call_parallel and of overlapping
\* call_parallel invocations on one pool interleave, no pool update is lost
\* and none is made for an attempt still waiting for its network call: at
\* all times, and so once all attempts have settled, the errors of a record
\* are the number of failed attempts that used it, and its calls_count the
\* number of attempts that marked it used; an attempt in flight has made no
\* update.
C25_NoPoolUpdateLost ==
    \A p \in Providers : \A i \in 1..Len(pools[p].keys) :
        /\ pools[p].keys[i].errors =
                Cardinality({ a \in AttemptsGiven(p, i) : IsError(calls[a[1]].results[a[2]]) })
        /\ pools[p].keys[i].calls_count =
                Cardinality({ a \in AttemptsGiven(p, i) :
                    \E u \in 1..Len(calls[a[1]].updates[a[2]]) :
                        calls[a[1]].updates[a[2]][u] = "mark_used" })
        /\ \A a \in AttemptsGiven(p, i) :
                calls[a[1]].results[a[2]] = Pending => calls[a[1]].updates[a[2]] = <<>>

\* two calls are gathering at once on a pool of one record, two attempts
\* each, and all four attempts have settled: three timed out and one was
\* answered, and the record stands evicted with three errors and one use
C25_Witness ==
    /\ calls[1].pc = "gather" /\ calls[2].pc = "gather"
    /\ calls[1].keys = <<1, 1>> /\ calls[2].keys = <<1, 1>>
    /\ \A c \in 1..2 : \A i \in 1..2 : calls[c].results[i] # Pending
    /\ calls[1].results[1] = [error |-> "timeout"]
    /\ IsSuccess(calls[1].results[2])
    /\ pools["openai"].keys[1].errors = 3
    /\ pools["openai"].keys[1].calls_count = 1
    /\ ~pools["openai"].keys[1].is_active

-----------------------------------------------------------------------------
(* Properties of the run loop *)

\* the loop hands a task to an agent in this step
Hands == run.pc = "loop" /\ run'.pc = "act"

\* C27: the run loop hands a task to an agent only while the task is PENDING
\* and every predecessor of it is DONE, and hands no task twice; and a status
\* the loop changes is that of the task just executed, from PENDING to DONE
\* or to FAILED.
C27_HandedWhenReadyAndOnce ==
    [][/\ Hands =>
            LET t == run'.task.task
            IN  /\ Status(graph, t) = PENDING
                /\ \A q \in DirectPreds(graph, t) :
                        "payload" \in DOMAIN graph.data[q] /\ Status(graph, q) = DONE
                /\ ~Contains(run.handed, t)
                /\ run'.handed = Append(run.handed, t)
                /\ graph' = graph
       /\ run.pc # "start" =>
            /\ Nodes(graph') = Nodes(graph)
            /\ \A n \in Nodes(graph) :
                    /\ "payload" \in DOMAIN graph'.data[n] <=> "payload" \in DOMAIN graph.data[n]
                    /\ ("payload" \in DOMAIN graph.data[n] /\ Status(graph', n) # Status(graph, n))
                            => /\ run.pc = "act"
                               /\ n = run.task.task
                               /\ Status(graph, n) = PENDING
                               /\ Status(graph', n) \in {DONE, FAILED}]_vars

\* the chain A, B (dep A), C (deps A, B): A and B were executed and are DONE
\* and C is with its agent
C27_Witness ==
    /\ run.pc = "act"
    /\ IsChainABC(graph)
    /\ run.handed = <<"A", "B", "C">>
    /\ run.task = [task |-> "C"]
    /\ Status(graph, "A") = DONE /\ Status(graph, "B") = DONE /\ Status(graph, "C") = PENDING

\* the run has ended: the log is saved, or an exception has left run
Ended == run.pc \in {"done", "raised"}

\* a task of the run has failed
Failed == \E j \in 1..Len(run.audit_log) : run.audit_log[j].outcome = "error"

\* C28: for every plan and every max_steps >= 0 the run loop terminates, given
\* that every agent call returns or raises; it hands at most max_steps tasks to
\* agents, hands none after a task has failed, and stops when no task is ready
\* although not all tasks are DONE.
C28_RunTerminates ==
    /\ <>Ended
    /\ [](run.pc # "start" => /\ Len(run.handed) <= run.max_steps
                              /\ Failed => run.pc \in {"report", "done", "raised"})
    /\ [][/\ Hands => ~Failed
          /\ (/\ run.pc = "loop" /\ run.step < run.max_steps
              /\ Complete(graph) /\ ReadySet(graph) = {}
              /\ \E n \in Nodes(graph) : Status(graph, n) # DONE)
                => run'.pc = "report" /\ run'.handed = run.handed]_vars

\* the run has ended with B still PENDING behind the failed A
C28_Witness ==
    /\ run.pc = "done"
    /\ graph.nodes = <<"A", "B">>
    /\ Edges(graph) = { <<"A", "B">> }
    /\ run.max_steps = 3
    /\ run.handed = <<"A">>
    /\ Status(graph, "A") = FAILED /\ Status(graph, "B") = PENDING

-----------------------------------------------------------------------------
(* Properties of a plan that names a task before it is added *)

AsSet(seq) == { seq[i] : i \in 1..Len(seq) }

\* the list of g's nodes rearranged so that every task comes after the tasks
\* it depends on
DependencyOrders(g) ==
    { s \in [1..Len(g.nodes) -> Nodes(g)] :
        /\ \A i, j \in 1..Len(g.nodes) : s[i] = s[j] => i = j
        /\ \A e \in Edges(g) :
              \E i, j \in 1..Len(g.nodes) : i < j /\ s[i] = e[1] /\ s[j] = e[2] }

\* both ends of every dependency are nodes of the graph, with or without task
DependencyNodesCreated ==
    \A e \in Edges(graph) : e[1] \in Nodes(graph) /\ e[2] \in Nodes(graph)

\* with every named id added, get_ready_tasks and all_done return, and return
\* the ready tasks and the boolean of the same tasks added in dependency order
LateTaskRepairs ==
    Complete(graph) =>
        /\ ret.op \in {"get_ready_tasks", "finished"} => ~Raises(ret)
        /\ \A s \in DependencyOrders(graph) :
                LET g == [graph EXCEPT !.nodes = s]
                IN  /\ ret.op = "get_ready_tasks" =>
                            /\ ~Raises(get_ready_tasks(g))
                            /\ AsSet(ret.value) = AsSet(get_ready_tasks(g).value)
                    /\ ret.op = "finished" => ret.value = all_done(g).value

\* C29 as stated: a depends_on id that is never added as a task still becomes
\* a node without payload, and then every get_ready_tasks and every all_done
\* call fails with an error; once the id is added by a later add_task the graph
\* behaves as if the tasks had been added in dependency order.
C29_DanglingDependencyFails ==
    /\ DependencyNodesCreated
    /\ (~Complete(graph) /\ ret.op \in {"get_ready_tasks", "finished"}) => Raises(ret)
    /\ LateTaskRepairs

\* C29 amended: with a node without payload every get_ready_tasks call fails
\* with an error, and all_done fails with an error or, stopping at a task
\* before that node that is not DONE, returns false; it never returns true.
C29_DanglingDependencyNeverDone ==
    /\ DependencyNodesCreated
    /\ ~Complete(graph) =>
            /\ ret.op = "get_ready_tasks" => Raises(ret)
            /\ ret.op = "finished" =>
                    \/ Raises(ret)
                    \/ /\ ret.value = FALSE
                       /\ \E i \in 1..Len(graph.nodes) :
                            /\ \A j \in 1..i : "payload" \in DOMAIN graph.data[graph.nodes[j]]
                            /\ Status(graph, graph.nodes[i]) # DONE
    /\ LateTaskRepairs

\* A depends on X, which no task of the plan is: A is PENDING ahead of the
\* node X without payload, and finished returned false
C29_Witness ==
    /\ ret.op = "finished"
    /\ graph.nodes = <<"A", "X">>
    /\ "payload" \notin DOMAIN graph.data["X"]
    /\ Status(graph, "A") = PENDING
    /\ ~Raises(ret)
    /\ ret.value = FALSE

-----------------------------------------------------------------------------
(* Properties of the rate limiter *)

\* C30: whenever chat is called, no more than max_requests_per_minute requests
\* are let through within any window of 60 seconds.
C30_RateLimitEnforced ==
    run.pc = "client" =>
        \A i \in 1..Len(run.sent) :
            Cardinality({ j \in 1..Len(run.sent) :
                            run.sent[i] <= run.sent[j] /\ run.sent[j] < run.sent[i] + Window })
                <= run.max_requests_per_minute

====
